---- MODULE Spec2Model ----
(***************************************************************************)
(* Model of the unified command bus of harness.core (unified_bus.py), with *)
(* the parts of command_parser.py and tool_adapter.py the bus calls.       *)
(*                                                                         *)
(* Strings the code builds or takes apart are tuples of string segments:   *)
(* the tool name "harness_read" is <<"harness_", "read">>, the error       *)
(* f"Unknown command: {command}" is <<"Unknown command: ">> \o command.    *)
(* None is the tuple <<"<None>">>.                                         *)
(***************************************************************************)
EXTENDS Integers, Sequences, FiniteSets, TLC

VARIABLES
    handlers,        \* UnifiedCommandBus.handlers: command name -> handler
    tool_handlers,   \* ToolAdapter.handlers: tool name -> synthesized tool handler
    schema_handlers, \* HARNESS_TOOLS[tool name].handler, of the module
    middlewares,     \* UnifiedCommandBus.middlewares, in registration order
    history,         \* UnifiedCommandBus.history
    max_history,     \* UnifiedCommandBus.max_history
    clock,           \* the last value time.time_ns() returned
    ticks,           \* by how much a reading of the clock can exceed the last
    calls,           \* the execute_text / execute_tool calls in progress
    n_constructed,   \* number of ExecutionRequests constructed so far
    appended,        \* arrival numbers of the requests appended to history
    n_registrations, \* number of register_handler calls made
    last_query,      \* the last get_history call and what it returned
    probe            \* a call of a function of the parser or of the tool
                     \* adapter on its own: its input and what came out

vars == <<handlers, tool_handlers, schema_handlers, middlewares, history, max_history, clock,
          ticks, probe, calls, n_constructed, appended, n_registrations, last_query>>

-----------------------------------------------------------------------------
(* Bounds of the model *)

MaxRequests == 3       \* requests constructed in one behaviour
MaxCommands == 2       \* commands in one text
MaxMiddlewares == 1    \* middlewares added
MaxRegistrations == 1  \* register_handler calls
MaxHistoryCap == 2     \* largest configured max_history
MaxLimit == 2          \* largest explicit limit given to get_history
MaxReplacements == 2   \* register_handler calls under one name
MaxChain == 2          \* middlewares of the longest chain

-----------------------------------------------------------------------------
(* Values *)

\* None where a string is expected, and None where an object is expected
None == <<"<None>">>
NoObject == [none |-> TRUE]
EmptyDict == [k \in {} |-> None]
PREFIX == "harness_"

Min(a, b) == IF a < b THEN a ELSE b
Max(a, b) == IF a > b THEN a ELSE b

\* s[-n:] of Python for n > 0: the last n elements (all of s when n >= len)
LastN(s, n) == SubSeq(s, Max(1, Len(s) - n + 1), Len(s))

\* s[-n:] of Python for any integer n: -0 is 0, so s[-0:] is s[0:], the whole
\* list; a negative n gives s[|n|:]
PySliceLast(s, n) ==
    IF n > 0 THEN LastN(s, n)
    ELSE SubSeq(s, Min(Len(s), 0 - n) + 1, Len(s))

\* COMMAND_DEFINITIONS: the names of the catalog
COMMAND_DEFINITIONS ==
    { <<"cmd">>, <<"read">>, <<"write">>, <<"edit">>, <<"search">>, <<"tree">>,
      <<"sandbox">>, <<"skill">>, <<"agent">>, <<"eval">>, <<"qa">>,
      <<"market">>, <<"help">>, <<"status">>, <<"config">>, <<"history">>,
      <<"clear">>, <<"version">> }

\* HARNESS_TOOLS: the names of the tool catalog
HARNESS_TOOLS ==
    { <<PREFIX, t>> : t \in { "shell", "read", "write", "edit", "search",
                              "sandbox", "skill", "agent", "eval", "qa",
                              "market", "status", "config" } }

\* the handler of every ToolSchema of the catalog when the module is loaded
NoSchemaHandlers == [t \in HARNESS_TOOLS |-> None]

\* str.replace("harness_", ""): every occurrence is removed, not only a prefix
RemoveHarness(name) == SelectSeq(name, LAMBDA seg : seg # PREFIX)

\* f"harness_{command}"
ToolNameOf(command) == <<PREFIX>> \o command

\* the name with one leading "harness_" removed (what register_handler's
\* f"harness_{command}" adds)
StripPrefix(name) ==
    IF Len(name) > 0 /\ Head(name) = PREFIX THEN Tail(name) ELSE name

-----------------------------------------------------------------------------
(* Python str operations the parser uses, on TLA+ strings *)

\* s[i] of a non-empty position, 1-based
Char(s, i) == SubSeq(s, i, i)

\* s[i:] for a 1-based first position i
From(s, i) == SubSeq(s, i, Len(s))

\* s.startswith(p)
startswith(s, p) == Len(s) >= Len(p) /\ SubSeq(s, 1, Len(p)) = p

\* the characters str.strip() removes and \s matches
PY_WHITESPACE == { " ", "\t", "\n", "\r", "\f" }

\* shlex.whitespace
SHLEX_WHITESPACE == { " ", "\t", "\r", "\n" }

RECURSIVE lstrip(_)
lstrip(s) ==
    IF Len(s) > 0 /\ Char(s, 1) \in PY_WHITESPACE THEN lstrip(From(s, 2)) ELSE s

RECURSIVE rstrip(_)
rstrip(s) ==
    IF Len(s) > 0 /\ Char(s, Len(s)) \in PY_WHITESPACE
    THEN rstrip(SubSeq(s, 1, Len(s) - 1)) ELSE s

\* s.strip()
strip(s) == rstrip(lstrip(s))

UPPERCASE == "ABCDEFGHIJKLMNOPQRSTUVWXYZ"
LOWERCASE == "abcdefghijklmnopqrstuvwxyz"
DIGITS == "0123456789"

\* 1-based position of the character c in s, 0 when it does not occur
RECURSIVE IndexFrom(_, _, _)
IndexFrom(s, c, i) ==
    IF i > Len(s) THEN 0
    ELSE IF Char(s, i) = c THEN i ELSE IndexFrom(s, c, i + 1)
Index(s, c) == IndexFrom(s, c, 1)

\* s.lower()
RECURSIVE lower(_)
lower(s) ==
    IF Len(s) = 0 THEN s
    ELSE LET c == Char(s, 1)
             u == Index(UPPERCASE, c)
         IN  (IF u = 0 THEN c ELSE Char(LOWERCASE, u)) \o lower(From(s, 2))

\* s.split(sep) for a one-character sep
RECURSIVE split(_, _)
split(s, sep) ==
    LET i == Index(s, sep) IN
    IF i = 0 THEN <<s>>
    ELSE <<SubSeq(s, 1, i - 1)>> \o split(From(s, i + 1), sep)

\* sep.join(parts)
RECURSIVE join(_, _)
join(sep, parts) ==
    IF Len(parts) = 0 THEN ""
    ELSE IF Len(parts) = 1 THEN parts[1]
    ELSE parts[1] \o sep \o join(sep, Tail(parts))

-----------------------------------------------------------------------------
(* shlex.split(s): POSIX mode, whitespace_split, no comments *)

ShlexOk(tokens) == [raised |-> FALSE, error |-> "", tokens |-> tokens]
ShlexError(error) == [raised |-> TRUE, error |-> error, tokens |-> <<>>]

\* shlex.read_token over the whole input: state is " " (between tokens),
\* "a" (in a word), a quote character (in a quotation) or "\\" (after an
\* escape); quoted tells that the token has seen a quotation
RECURSIVE ShlexRun(_, _, _, _, _, _, _)
ShlexRun(s, i, state, escapedstate, token, quoted, tokens) ==
    LET eof == i > Len(s)
        c == IF eof THEN "" ELSE Char(s, i)
        emit == IF token # "" \/ quoted THEN Append(tokens, token) ELSE tokens
    IN
    IF state = " " THEN
        IF eof THEN ShlexOk(emit)
        ELSE IF c \in SHLEX_WHITESPACE
        THEN ShlexRun(s, i + 1, " ", escapedstate, "", FALSE, emit)
        ELSE IF c = "\\"
        THEN ShlexRun(s, i + 1, "\\", "a", token, quoted, tokens)
        ELSE IF c \in {"\"", "'"}
        THEN ShlexRun(s, i + 1, c, escapedstate, token, quoted, tokens)
        ELSE ShlexRun(s, i + 1, "a", escapedstate, c, quoted, tokens)
    ELSE IF state \in {"\"", "'"} THEN
        IF eof THEN ShlexError("No closing quotation")
        ELSE IF c = state
        THEN ShlexRun(s, i + 1, "a", escapedstate, token, TRUE, tokens)
        ELSE IF c = "\\" /\ state = "\""
        THEN ShlexRun(s, i + 1, "\\", state, token, TRUE, tokens)
        ELSE ShlexRun(s, i + 1, state, escapedstate, token \o c, TRUE, tokens)
    ELSE IF state = "\\" THEN
        IF eof THEN ShlexError("No escaped character")
        ELSE LET kept == IF escapedstate \in {"\"", "'"} /\ c # "\\"
                            /\ c # escapedstate
                         THEN token \o "\\" ELSE token
             IN  ShlexRun(s, i + 1, escapedstate, escapedstate, kept \o c,
                          quoted, tokens)
    ELSE \* state = "a"
        IF eof THEN ShlexOk(emit)
        ELSE IF c \in SHLEX_WHITESPACE
        THEN ShlexRun(s, i + 1, " ", escapedstate, "", FALSE, emit)
        ELSE IF c \in {"\"", "'"}
        THEN ShlexRun(s, i + 1, c, escapedstate, token, quoted, tokens)
        ELSE IF c = "\\"
        THEN ShlexRun(s, i + 1, "\\", "a", token, quoted, tokens)
        ELSE ShlexRun(s, i + 1, "a", escapedstate, token \o c, quoted, tokens)

shlex_split(s) == ShlexRun(s, 1, " ", " ", "", FALSE, <<>>)

-----------------------------------------------------------------------------
(* Inputs the model draws from *)

Agents == { <<"a1">>, <<"a2">> }
Callers == { <<"a1">> }

\* the CommandHandler objects of the embedding program, named by handler.name
Handlers == { <<"h1">> }

\* the command names register_handler is given: a catalog command and a name
\* that contains "harness_" after its first character
RegisterNames == { <<"read">>, <<"my_", PREFIX, "tool">> }

\* the command lines of the texts: a catalog command, the same with an
\* opening quote that is never closed, the built-in help and a name outside
\* the catalog
TextLines == { "/read", "/read \"abc", "/help", "/frobnicate" }

\* the texts given to execute_text: up to MaxCommands lines
Texts == { join("\n", ls) : ls \in UNION { [1..n -> TextLines] : n \in 0..MaxCommands } }

\* the commands, texts and tools of the routing specification: the command
\* of the catalog whose tool has another name (cmd, harness_shell) and one
\* whose tool is named after it
RouteNames == { <<"cmd">>, <<"read">> }
RouteTexts == { "/cmd", "/read" }
RouteTools == { <<PREFIX, "shell">>, <<PREFIX, "read">> }

\* the handler given to the k-th register_handler call of the replacement
\* specification: a new object each time
NthHandler(k) == <<"h", <<"1", "2", "3", "4">>[k]>>

\* the texts of the chain specification
ChainTexts == { "/read", "/help" }

\* tool_args: a mapping is an ordered list of <<key, value>> pairs with
\* distinct keys, a value is <<"none">>, <<"bool", b>> or <<"str", s>>;
\* NotAMapping is a value dict() rejects (a plain string)
NotAMapping == << <<"<not a mapping>">> >>
ToolArgs ==
    { << <<"action", <<"str", "list">> >>, <<"force", <<"bool", "true">> >> >>,
      NotAMapping }

ToolNames ==
    { <<PREFIX, "read">>, <<PREFIX, "my_", PREFIX, "tool">> }

\* the (tool_name, tool_args) pairs given to execute_tool
ToolCalls ==
    { <<n, a>> \in ToolNames \X ToolArgs :
          a = NotAMapping => n = <<PREFIX, "read">> }

\* what a handler's execute does when awaited: returns a value, or raises
\* an error e, of which str(e) is kept; the second error has no message
HandlerOutcomes ==
    { [raises |-> FALSE, value |-> <<"r1">>],
      [raises |-> TRUE,  value |-> <<"m1">>],
      [raises |-> TRUE,  value |-> <<"">>] }

\* what a middleware does with (request, next): forwards to next and returns
\* its response, returns a response of its own without calling next, or
\* raises before calling next
MiddlewareKinds == { "pass", "short", "raise" }

MiddlewareError == <<"middleware failed">>
DictError == <<"dictionary update sequence element #0 has length 1; 2 is required">>

-----------------------------------------------------------------------------
(* command_parser.py *)

ParsedCommand(raw, command, subcommand, args, flags, valid, error) ==
    [raw |-> raw, command |-> command, subcommand |-> subcommand,
     args |-> args, flags |-> flags, valid |-> valid, error |-> error]

\* extract_commands

NAME_CHARS == "abcdefghijklmnopqrstuvwxyz_"

\* the length of the longest prefix of s made of characters of chars
RECURSIVE SpanOf(_, _)
SpanOf(s, chars) ==
    IF Len(s) > 0 /\ Index(chars, Char(s, 1)) # 0
    THEN 1 + SpanOf(From(s, 2), chars) ELSE 0

\* SINGLE_COMMAND_PATTERN.match(stripped), ^/([a-z_]+)(?:\s+(.*))?$ with
\* DOTALL: group 1 is the longest run of name characters after the slash,
\* it must be followed by the end or by whitespace, and group 2 (None
\* when the optional part is absent) is what follows that whitespace
SingleCommandMatch(stripped) ==
    LET n == SpanOf(From(stripped, 2), NAME_CHARS)
        after == From(stripped, n + 2)
        no_match == [matched |-> FALSE, group1 |-> "", has2 |-> FALSE,
                     group2 |-> ""]
    IN  IF ~startswith(stripped, "/") \/ n = 0 THEN no_match
        ELSE IF after = ""
        THEN [matched |-> TRUE, group1 |-> SubSeq(stripped, 2, n + 1),
              has2 |-> FALSE, group2 |-> ""]
        ELSE IF Char(after, 1) \in PY_WHITESPACE
        THEN [matched |-> TRUE, group1 |-> SubSeq(stripped, 2, n + 1),
              has2 |-> TRUE, group2 |-> lstrip(after)]
        ELSE no_match

\* the loop of extract_commands over the lines from position i on;
\* has_current is "current_command is not None"
RECURSIVE ExtractLoop(_, _, _, _, _, _)
ExtractLoop(lines, i, commands, has_current, current_command, current_args) ==
    LET flushed == IF has_current
                   THEN Append(commands,
                               <<current_command, join(" ", current_args)>>)
                   ELSE commands
    IN
    IF i > Len(lines) THEN flushed
    ELSE LET stripped == strip(lines[i]) IN
         IF startswith(stripped, "/")
         THEN LET match == SingleCommandMatch(stripped) IN
              IF match.matched
              THEN ExtractLoop(lines, i + 1, flushed, TRUE, match.group1,
                               IF match.has2 /\ match.group2 # ""
                               THEN <<match.group2>> ELSE <<>>)
              ELSE ExtractLoop(lines, i + 1, flushed, FALSE, "", <<>>)
         ELSE IF has_current /\ stripped # ""
         THEN ExtractLoop(lines, i + 1, commands, TRUE, current_command,
                          Append(current_args, stripped))
         ELSE ExtractLoop(lines, i + 1, commands, has_current,
                          current_command, current_args)

\* CommandParser.extract_commands(text): the (command_name, rest_of_line)
\* pairs, in encounter order
extract_commands(text) == ExtractLoop(split(text, "\n"), 1, <<>>, FALSE, "", <<>>)

-----------------------------------------------------------------------------
(* command_parser.py: _parse_flag_value *)

\* the values a flag can hold
PyBool(b) == <<"bool", IF b THEN "true" ELSE "false">>
PyInt(n) == <<"int", n>>
PyFloat(literal) == <<"float", literal>>
PyStr(s) == <<"str", s>>

IsDigit(c) == Index(DIGITS, c) # 0

\* after a digit: digits, each "_" directly followed by a digit
RECURSIVE DigitsRest(_)
DigitsRest(s) ==
    \/ s = ""
    \/ IsDigit(Char(s, 1)) /\ DigitsRest(From(s, 2))
    \/ Char(s, 1) = "_" /\ Len(s) >= 2 /\ IsDigit(Char(s, 2))
       /\ DigitsRest(From(s, 3))

\* a digit group of a numeric literal
IsDigits(s) == Len(s) > 0 /\ IsDigit(Char(s, 1)) /\ DigitsRest(From(s, 2))

Unsigned(s) ==
    IF startswith(s, "+") \/ startswith(s, "-") THEN From(s, 2) ELSE s

\* the number a digit group denotes, after acc
RECURSIVE DigitsValue(_, _)
DigitsValue(s, acc) ==
    IF s = "" THEN acc
    ELSE IF Char(s, 1) = "_" THEN DigitsValue(From(s, 2), acc)
    ELSE DigitsValue(From(s, 2), 10 * acc + (Index(DIGITS, Char(s, 1)) - 1))

\* int(value) does not raise ValueError
IntParses(value) == IsDigits(Unsigned(strip(value)))

\* (mutant) int(value) is off by one
IntOf_OffByOne(value) ==
    LET s == strip(value)
        n == DigitsValue(Unsigned(s), 0) + 1
    IN  IF startswith(s, "-") THEN 0 - n ELSE n

\* int(value)
IntOf(value) ==
    LET s == strip(value)
        n == DigitsValue(Unsigned(s), 0)
    IN  IF startswith(s, "-") THEN 0 - n ELSE n

\* a decimal mantissa: D, D., D.D or .D
IsMantissa(s) ==
    LET dot == Index(s, ".") IN
    IF dot = 0 THEN IsDigits(s)
    ELSE LET int_part == SubSeq(s, 1, dot - 1)
             frac_part == From(s, dot + 1)
         IN  /\ int_part = "" \/ IsDigits(int_part)
             /\ frac_part = "" \/ IsDigits(frac_part)
             /\ int_part # "" \/ frac_part # ""

\* float(value) does not raise ValueError
FloatParses(value) ==
    LET body == lower(Unsigned(strip(value)))
        e == Index(body, "e")
    IN  \/ body \in {"inf", "infinity", "nan"}
        \/ e = 0 /\ IsMantissa(body)
        \/ e # 0 /\ IsMantissa(SubSeq(body, 1, e - 1))
                 /\ IsDigits(Unsigned(From(body, e + 1)))

\* (mutant) the integer test comes before the boolean words
_parse_flag_value_IntFirst(value) ==
    IF IntParses(value) THEN PyInt(IntOf(value))
    ELSE IF lower(value) \in {"true", "yes", "1"} THEN PyBool(TRUE)
    ELSE IF lower(value) \in {"false", "no", "0"} THEN PyBool(FALSE)
    ELSE IF FloatParses(value) THEN PyFloat(strip(value))
    ELSE PyStr(value)

\* CommandParser._parse_flag_value(value); a float is held as the literal
\* it was read from
_parse_flag_value(value) ==
    IF lower(value) \in {"true", "yes", "1"} THEN PyBool(TRUE)
    ELSE IF lower(value) \in {"false", "no", "0"} THEN PyBool(FALSE)
    ELSE IF IntParses(value) THEN PyInt(IntOf(value))
    ELSE IF FloatParses(value) THEN PyFloat(strip(value))
    ELSE PyStr(value)

-----------------------------------------------------------------------------
(* command_parser.py: parse, parse_all *)

\* the "subcommands" of the definitions that declare them
SUBCOMMANDS ==
    [c \in { <<"sandbox">>, <<"skill">>, <<"agent">>, <<"eval">>, <<"qa">>,
             <<"market">> } |->
        CASE c = <<"sandbox">> ->
                 { "list", "create", "switch", "share", "delete", "env", "state" }
          [] c = <<"skill">> ->
                 { "list", "info", "invoke", "install", "create", "remove" }
          [] c = <<"agent">> ->
                 { "list", "msg", "broadcast", "query", "subscribe",
                   "unsubscribe" }
          [] c = <<"eval">> ->
                 { "start", "record", "assess", "gaps", "improve", "report",
                   "status", "history" }
          [] c = <<"qa">> ->
                 { "generate", "pending", "answer", "review", "learn", "export" }
          [] c = <<"market">> ->
                 { "search", "info", "install", "publish", "rate", "my" }]

\* (mutant) a key that is present keeps its value
FlagSet_KeepFirst(flags, key, value) ==
    IF \E i \in 1..Len(flags) : flags[i][1] = key
    THEN flags
    ELSE Append(flags, <<key, value>>)

\* flags[key] = value on a dict held as its items in insertion order
FlagSet(flags, key, value) ==
    IF \E i \in 1..Len(flags) : flags[i][1] = key
    THEN [i \in 1..Len(flags) |->
             IF flags[i][1] = key THEN <<key, value>> ELSE flags[i]]
    ELSE Append(flags, <<key, value>>)

\* (mutant) a positional token is dropped
AddPositional_Drop(args, token) == args

\* args.append(token)
AddPositional(args, token) == Append(args, token)

\* the while loop of parse over rest from position i on
RECURSIVE ParseLoop(_, _, _, _)
ParseLoop(rest, i, args, flags) ==
    IF i > Len(rest) THEN [args |-> args, flags |-> flags]
    ELSE LET token == rest[i]
             takes_next == i + 1 <= Len(rest) /\ ~startswith(rest[i + 1], "-")
         IN
         IF startswith(token, "--")
         THEN LET flag_name == From(token, 3)
                  eq == Index(flag_name, "=")
              IN  IF eq # 0
                  THEN ParseLoop(rest, i + 1, args,
                                 FlagSet(flags, SubSeq(flag_name, 1, eq - 1),
                                         _parse_flag_value(From(flag_name, eq + 1))))
                  ELSE IF takes_next
                  THEN ParseLoop(rest, i + 2, args,
                                 FlagSet(flags, flag_name,
                                         _parse_flag_value(rest[i + 1])))
                  ELSE ParseLoop(rest, i + 1, args,
                                 FlagSet(flags, flag_name, PyBool(TRUE)))
         ELSE IF startswith(token, "-") /\ Len(token) = 2
         THEN IF takes_next
              THEN ParseLoop(rest, i + 2, args,
                             FlagSet(flags, Char(token, 2),
                                     _parse_flag_value(rest[i + 1])))
              ELSE ParseLoop(rest, i + 1, args,
                             FlagSet(flags, Char(token, 2), PyBool(TRUE)))
         ELSE ParseLoop(rest, i + 1, AddPositional(args, token), flags)

\* (mutant) parse without its try/except around shlex.split: the ValueError
\* leaves parse
ParseOutcome_NoExcept(text, split_result) ==
    [raised |-> TRUE, error |-> split_result.error, value |-> NoObject]

\* (mutant) a text that does not tokenize is answered as a valid command
ParseOutcome_Valid(text, split_result) ==
    [raised |-> FALSE, error |-> "",
     value |-> ParsedCommand(<<"/", text>>, <<"">>, None, <<>>, <<>>, TRUE,
                             None)]

\* the except ValueError clause of parse
ParseOutcome(text, split_result) ==
    [raised |-> FALSE, error |-> "",
     value |-> ParsedCommand(<<"/", text>>, <<"">>, None, <<>>, <<>>, FALSE,
                             <<"Parse error: ", split_result.error>>)]

\* (mutant) the token after the command is never taken as a subcommand
TakesSubcommand_Never(command, rest) == FALSE

\* "subcommands" in definition and rest and rest[0].lower() in them
TakesSubcommand(command, rest) ==
    /\ command \in DOMAIN SUBCOMMANDS
    /\ Len(rest) > 0
    /\ lower(rest[1]) \in SUBCOMMANDS[command]

\* CommandParser.parse(text), with whether it raised
parse_call(text0) ==
    LET stripped == strip(text0)
        text == From(stripped, 2)
        sp == shlex_split(text)
        returned(value) == [raised |-> FALSE, error |-> "", value |-> value]
    IN
    IF ~startswith(stripped, "/")
    THEN returned(ParsedCommand(<<stripped>>, <<"">>, None, <<>>, <<>>, FALSE,
                                <<"Command must start with /">>))
    ELSE IF sp.raised THEN ParseOutcome(text, sp)
    ELSE IF Len(sp.tokens) = 0
    THEN returned(ParsedCommand(<<"/", text>>, <<"">>, None, <<>>, <<>>, FALSE,
                                <<"Empty command">>))
    ELSE LET command == <<lower(sp.tokens[1])>>
             rest == Tail(sp.tokens)
         IN  IF command \notin COMMAND_DEFINITIONS
             THEN returned(ParsedCommand(<<"/", text>>, command, None, <<>>,
                                         <<>>, FALSE,
                                         <<"Unknown command: ">> \o command))
             ELSE LET sub == TakesSubcommand(command, rest)
                      loop == ParseLoop(IF sub THEN Tail(rest) ELSE rest, 1,
                                        <<>>, <<>>)
                  IN  returned(ParsedCommand(
                                   <<"/", text>>, command,
                                   IF sub THEN <<lower(rest[1])>> ELSE None,
                                   loop.args, loop.flags, TRUE, None))

\* CommandParser.parse(text) when it returns
parse(text) == parse_call(text).value

\* the full_cmd parse_all builds from an extracted pair
FullCmd(pair) ==
    IF pair[2] # "" THEN "/" \o pair[1] \o " " \o pair[2] ELSE "/" \o pair[1]

\* CommandParser.parse_all(text)
parse_all(text) ==
    LET extracted == extract_commands(text)
    IN  [i \in 1..Len(extracted) |-> parse(FullCmd(extracted[i]))]

\* CommandParser.parse_all(text), with whether it raised: the error of the
\* first parse that raises leaves parse_all
parse_all_call(text) ==
    LET extracted == extract_commands(text)
        results == [i \in 1..Len(extracted) |->
                       parse_call(FullCmd(extracted[i]))]
        failed == { i \in 1..Len(extracted) : results[i].raised }
    IN  IF failed # {}
        THEN LET first == CHOOSE i \in failed : \A j \in failed : i <= j
             IN  [raised |-> TRUE, error |-> results[first].error,
                  value |-> NoObject]
        ELSE [raised |-> FALSE, error |-> "",
              value |-> [i \in 1..Len(extracted) |-> results[i].value]]

\* CommandParser.get_help(command)
get_help(command) ==
    IF command = None THEN <<"Available commands:">>
    ELSE IF command \notin COMMAND_DEFINITIONS
    THEN <<"Unknown command: ">> \o command
    ELSE <<"/">> \o command

\* every text a call of the model is given
BusTexts == Texts \cup RouteTexts \cup ChainTexts

\* parse_all and extract_commands on the texts of the calls, as tables
ParsedTexts == [t \in BusTexts |-> parse_all(t)]
ExtractedTexts == [t \in BusTexts |-> extract_commands(t)]

-----------------------------------------------------------------------------
(* tool_adapter.py *)

\* tool_cmd_map.get(tool_name, tool_name.replace("harness_", ""))
ToolCmdMap(tool_name) ==
    IF tool_name = <<PREFIX, "shell">> THEN <<"cmd">>
    ELSE RemoveHarness(tool_name)

IsKey(arguments, k) == \E i \in 1..Len(arguments) : arguments[i][1] = k
ValueOf(arguments, k) ==
    arguments[CHOOSE i \in 1..Len(arguments) : arguments[i][1] = k][2]

\* arguments.pop("action", None)
PopAction(arguments) == SelectSeq(arguments, LAMBDA kv : kv[1] # "action")

\* the flags loop: a bool is kept when true, any other value when not None
KeepAsFlag(kv) ==
    IF kv[2][1] = "bool" THEN kv[2][2] = "true" ELSE kv[2][1] # "none"

\* ToolAdapter.tool_to_command
tool_to_command(tool_name, arguments) ==
    LET cmd == ToolCmdMap(tool_name)
        subcommand == IF IsKey(arguments, "action")
                         /\ ValueOf(arguments, "action")[1] # "none"
                      THEN <<ValueOf(arguments, "action")[2]>> ELSE None
        rest == PopAction(arguments)
    IN  ParsedCommand(<<"/">> \o cmd \o <<" ">> \o
                          (IF subcommand = None THEN <<>> ELSE subcommand),
                      cmd, subcommand, <<>>, SelectSeq(rest, KeepAsFlag),
                      TRUE, None)

-----------------------------------------------------------------------------
(* unified_bus.py: requests and responses *)

TEXT_COMMAND == "TEXT_COMMAND"
TOOL_CALL == "TOOL_CALL"

\* ExecutionRequest; seq is the arrival number of the request (1 for the
\* first one the bus constructs), kept to tell requests apart
ExecutionRequest(seq, request_id, request_type, agent_id, parsed, tool_name, tool_args) ==
    [seq |-> seq, request_id |-> request_id, request_type |-> request_type,
     agent_id |-> agent_id,
     raw_text |-> IF parsed = NoObject THEN None ELSE parsed.raw,
     parsed_command |-> parsed, tool_name |-> tool_name,
     tool_args |-> tool_args]

\* the metadata dict of a response, None for a key that is absent
Metadata(command, tool_name, handler) ==
    [command |-> command, tool_name |-> tool_name, handler |-> handler]

ExecutionResponse(request_id, success, result, error, metadata) ==
    [request_id |-> request_id, success |-> success, result |-> result,
     error |-> error, metadata |-> metadata]

\* what a call holds while it runs
\*   pc        "idle", "mw" (the chain is at middleware mwpos, or at the core
\*             dispatcher when mwpos is past the last one), "handler" (a
\*             handler's execute is awaited), "done", "raised"
\*   inv       the handler invocations made for the current request
\*   stack     the middlewares (by position in middlewares) that were
\*             entered for the current request and have not returned
\*   trace     what ran for the current request, in order: <<"enter", p>>
\*             and <<"exit", p>> for the middleware at position p,
\*             <<"core", 0>> for the core dispatcher
\*   begun     number of requests this call has constructed
\*   served    per response: the request it answers, the index of its parsed
\*             command, how it was served (via), the handler invocations
\*             made for it, what the handler did (outcome), its trace and
\*             the number of register_handler calls made before it
IdleCall ==
    [pc |-> "idle", kind |-> "none", agent_id |-> None, text |-> "",
     parsed |-> <<>>,
     tool_name |-> None, tool_args |-> <<>>, idx |-> 0, request |-> NoObject,
     mwpos |-> 0, handler |-> None, path |-> "none", inv |-> <<>>,
     stack |-> <<>>, trace |-> <<>>, begun |-> 0, responses |-> <<>>, served |-> <<>>]

\* no function has been called on its own
NoProbe == [fn |-> "none"]

NoQuery == [asked |-> FALSE, agent_id |-> None, limit |-> 0,
            before |-> <<>>, after |-> <<>>, result |-> <<>>]

\* the max_history the embedding program gives the bus after constructing
\* it: the smallest that keeps a request, and one that keeps two
HistoryCaps == { 1, 2 }

Init ==
    /\ handlers = EmptyDict
    /\ tool_handlers = EmptyDict
    /\ schema_handlers = NoSchemaHandlers
    /\ middlewares = << >>
    /\ history = << >>
    /\ max_history \in HistoryCaps
    /\ clock = 0
    /\ ticks = {1}      \* every reading of the clock is later than the last
    /\ calls = [c \in {"c1"} |-> IdleCall]
    /\ n_constructed = 0
    /\ appended = {}
    /\ n_registrations = 0
    /\ last_query = NoQuery
    /\ probe = NoProbe

\* the registry and the chain are set up before the first call
Setup == \A c \in DOMAIN calls : calls[c].pc = "idle"

\* no call is between its start and its return
Quiet == \A c \in DOMAIN calls : calls[c].pc \in {"idle", "done", "raised"}

-----------------------------------------------------------------------------
(* unified_bus.py: setup *)

\* (mutant) a key that is present keeps its value: d.setdefault(k, v)
DictSet_KeepFirst(d, k, v) ==
    [x \in DOMAIN d \cup {k} |-> IF x \in DOMAIN d THEN d[x] ELSE v]

\* dict assignment d[k] = v
DictSet(d, k, v) == [x \in DOMAIN d \cup {k} |-> IF x = k THEN v ELSE d[x]]

\* "if tool_name in self.tools: self.tools[tool_name].handler = handler"
\* of ToolAdapter.register_handler: self.tools is dict(HARNESS_TOOLS), a
\* copy of the catalog that holds the catalog's own ToolSchema objects
BindSchema(schema, tool_name, handler) ==
    IF tool_name \in HARNESS_TOOLS
    THEN [schema EXCEPT ![tool_name] = handler]
    ELSE schema

\* UnifiedCommandBus.register_handler(command, handler), with
\* ToolAdapter.register_handler(tool_name, tool handler of handler)
register_handler(command, handler) ==
    /\ n_registrations' = n_registrations + 1
    /\ handlers' = DictSet(handlers, command, handler)
    /\ tool_handlers' = DictSet(tool_handlers, ToolNameOf(command), handler)
    /\ schema_handlers' = BindSchema(schema_handlers, ToolNameOf(command),
                                     handler)
    /\ UNCHANGED <<middlewares, history, max_history, clock, ticks, probe, calls,
                   n_constructed, appended, last_query>>

\* UnifiedCommandBus.add_middleware(middleware)
add_middleware(middleware) ==
    /\ middlewares' = Append(middlewares, middleware)
    /\ UNCHANGED <<handlers, tool_handlers, schema_handlers, history, max_history, clock, ticks, probe,
                   calls,
                   n_constructed, appended, n_registrations, last_query>>

-----------------------------------------------------------------------------
(* unified_bus.py: the core dispatcher *)

\* what the core dispatcher does with a request: it answers at once
\* (Answer), awaits a handler's execute (Invoke), or raises (Raise)
Answer(response, via) ==
    [kind |-> "answer", response |-> response, via |-> via,
     handler |-> None, path |-> "none", parsed |-> NoObject, error |-> None]
Invoke(handler, path, parsed) ==
    [kind |-> "invoke", response |-> NoObject, via |-> path,
     handler |-> handler, path |-> path, parsed |-> parsed, error |-> None]
Raise(error, via) ==
    [kind |-> "raise", response |-> NoObject, via |-> via,
     handler |-> None, path |-> "none", parsed |-> NoObject, error |-> error]

\* (mutant) the validity of the ParsedCommand is not looked at
NotValid_Never(parsed) == FALSE

\* "not parsed.valid" of the test "not parsed or not parsed.valid"
NotValid(parsed) == ~parsed.valid

\* (mutant) every unregistered command is answered as the built-in help
IsBuiltin_Any(command) == TRUE

\* (mutant) there is no built-in handler
IsBuiltin_None(command) == FALSE

\* the built-in handlers: command == "help"
IsBuiltin(command) == command = <<"help">>

\* UnifiedCommandBus._execute_text_command up to the handler's execute
_execute_text_command(request) ==
    LET parsed == request.parsed_command IN
    IF parsed = NoObject
    THEN Answer(ExecutionResponse(request.request_id, FALSE, None,
                                  <<"Failed to parse command">>,
                                  Metadata(request.raw_text, None, None)),
                "invalid")
    ELSE IF NotValid(parsed)
    THEN Answer(ExecutionResponse(request.request_id, FALSE, None,
                                  parsed.error,
                                  Metadata(parsed.raw, None, None)),
                "invalid")
    ELSE IF parsed.command \notin DOMAIN handlers
    THEN IF IsBuiltin(parsed.command)
         THEN Answer(ExecutionResponse(
                         request.request_id, TRUE,
                         get_help(IF Len(parsed.args) > 0
                                  THEN <<parsed.args[1]>> ELSE None),
                         None, Metadata(parsed.raw, None, None)),
                     "help")
         ELSE Answer(ExecutionResponse(
                         request.request_id, FALSE, None,
                         <<"Unknown command: ">> \o parsed.command,
                         Metadata(parsed.raw, None, None)),
                     "unknown")
    ELSE Invoke(handlers[parsed.command], "text", parsed)

\* (mutant) the except clause leaves the error out of the response
TextHandlerResponse_NoError(request, handler, outcome) ==
    IF ~outcome.raises
    THEN ExecutionResponse(request.request_id, TRUE, outcome.value, None,
                           Metadata(request.parsed_command.raw, None, handler))
    ELSE ExecutionResponse(request.request_id, FALSE, None, None,
                           Metadata(request.parsed_command.raw, None, handler))

\* (mutant) the except clause reports a fixed text, not str(e)
TextHandlerResponse_Generic(request, handler, outcome) ==
    IF ~outcome.raises
    THEN ExecutionResponse(request.request_id, TRUE, outcome.value, None,
                           Metadata(request.parsed_command.raw, None, handler))
    ELSE ExecutionResponse(request.request_id, FALSE, None,
                           <<"Command failed">>,
                           Metadata(request.parsed_command.raw, None, handler))

\* the try/except around handler.execute in _execute_text_command
TextHandlerResponse(request, handler, outcome) ==
    IF ~outcome.raises
    THEN ExecutionResponse(request.request_id, TRUE, outcome.value, None,
                           Metadata(request.parsed_command.raw, None, handler))
    ELSE ExecutionResponse(request.request_id, FALSE, None, outcome.value,
                           Metadata(request.parsed_command.raw, None, handler))

\* self.handlers.get(tool_name) or self.tools[tool_name].handler, for a
\* tool of the catalog
ToolHandlerOf(tool_name) ==
    IF tool_name \in DOMAIN tool_handlers THEN tool_handlers[tool_name]
    ELSE schema_handlers[tool_name]

\* ToolAdapter.execute up to the tool handler's call
AdapterExecute(request) ==
    LET tool_name == request.tool_name
        failure(error, via) ==
            Answer(ExecutionResponse(request.request_id, FALSE, None, error,
                                     Metadata(None, tool_name, None)), via)
    IN
    IF tool_name \notin HARNESS_TOOLS
    THEN failure(<<"Unknown tool: ">> \o tool_name, "unknown_tool")
    ELSE IF ToolHandlerOf(tool_name) = None
    THEN failure(<<"No handler for tool: ">> \o tool_name, "no_handler")
    ELSE IF request.tool_args = NotAMapping
    THEN failure(<<"argument after ** must be a mapping">>, "bad_arguments")
    ELSE LET handler == ToolHandlerOf(tool_name)
             parsed == tool_to_command(ToolNameOf(handler), request.tool_args)
         IN  Invoke(handler, "adapter", [parsed EXCEPT !.command = handler])

\* UnifiedCommandBus._execute_tool_call up to the handler's execute
_execute_tool_call(request) ==
    LET tool_name == request.tool_name
        cmd_name == RemoveHarness(tool_name)
    IN
    IF cmd_name \in DOMAIN handlers
    THEN IF request.tool_args = NotAMapping
         THEN Raise(DictError, "core_raise")
         ELSE LET parsed == tool_to_command(tool_name, request.tool_args)
              IN  Invoke(handlers[cmd_name], "tool",
                         [parsed EXCEPT !.command = cmd_name])
    ELSE AdapterExecute(request)

\* the try/except around handler.execute in _execute_tool_call
ToolHandlerResponse(request, handler, outcome) ==
    IF ~outcome.raises
    THEN ExecutionResponse(request.request_id, TRUE, outcome.value, None,
                           Metadata(None, request.tool_name, handler))
    ELSE ExecutionResponse(request.request_id, FALSE, None, outcome.value,
                           Metadata(None, request.tool_name, handler))

\* the try/except of ToolAdapter.execute, folded into the response by
\* _execute_tool_call
AdapterHandlerResponse(request, handler, outcome) ==
    IF ~outcome.raises
    THEN ExecutionResponse(request.request_id, TRUE, outcome.value, None,
                           Metadata(None, request.tool_name, None))
    ELSE ExecutionResponse(request.request_id, FALSE, None, outcome.value,
                           Metadata(None, request.tool_name, None))

\* UnifiedCommandBus._execute_core
_execute_core(request) ==
    IF request.request_type = TEXT_COMMAND
    THEN _execute_text_command(request)
    ELSE _execute_tool_call(request)

\* the response a short-circuiting middleware returns
ShortResponse(request) ==
    ExecutionResponse(request.request_id, TRUE, <<"short-circuit">>, None,
                      Metadata(None, None, None))

\* (mutant) _execute without its except clause: the error leaves the bus
_execute_result_NoExcept(request, raised, response, error) ==
    [raised |-> raised, response |-> response]

\* the except clause of UnifiedCommandBus._execute: what came out of the
\* chain is a response, or an error turned into a failure response
_execute_result(request, raised, response, error) ==
    IF raised
    THEN [raised |-> FALSE,
          response |-> ExecutionResponse(request.request_id, FALSE, None,
                                         error, Metadata(None, None, None))]
    ELSE [raised |-> FALSE, response |-> response]

-----------------------------------------------------------------------------
(* unified_bus.py: execute_text, execute_tool, _execute *)

NoOutcome == [raises |-> FALSE, value |-> None]

\* (mutant) the request is put in front of the history
AppendHistory_InFront(h, request, maxh) ==
    LET all == <<request>> \o h IN
    IF Len(all) > maxh THEN SubSeq(all, 1, maxh) ELSE all

\* (mutant) the history is never cut
AppendHistory_Unbounded(h, request, maxh) == Append(h, request)

\* (mutant) a full history takes no new request
AppendHistory_DropWhenFull(h, request, maxh) ==
    IF Len(h) >= maxh THEN h ELSE Append(h, request)

\* (mutant) the cut keeps the oldest entries: history[:max_history]
AppendHistory_KeepOldest(h, request, maxh) ==
    LET h2 == Append(h, request) IN
    IF Len(h2) > maxh THEN SubSeq(h2, 1, maxh) ELSE h2

\* (mutant) the request is appended by _execute and once more below it
AppendHistory_Twice(h, request, maxh) ==
    LET h2 == Append(Append(h, request), request) IN
    IF Len(h2) > maxh THEN PySliceLast(h2, maxh) ELSE h2

\* the history lines of _execute: append, then keep the last max_history
AppendHistory(h, request, maxh) ==
    LET h2 == Append(h, request) IN
    IF Len(h2) > maxh THEN PySliceLast(h2, maxh) ELSE h2

SeqsOf(h) == { h[i].seq : i \in 1..Len(h) }

\* (mutant) the loop ends at the first failure
AfterResponse_StopOnFailure(rec, response) ==
    IF rec.kind = "text" /\ rec.idx < Len(rec.parsed) /\ response.success
    THEN "next" ELSE "return"

\* the loop of execute_text after a response: "next" to dispatch the next
\* parsed command, "return" when every parsed command has its response
AfterResponse(rec, response) ==
    IF rec.kind = "text" /\ rec.idx < Len(rec.parsed) THEN "next" ELSE "return"

\* responses.append(response)
Collect(responses, response) == Append(responses, response)

\* time.time_ns(): the last reading plus what the clock has advanced
TimeNs == { clock + d : d \in ticks }

\* the request of execute_text / execute_tool is constructed and _execute
\* runs up to its first await: the request is appended to the history
BeginRequest(c, rec, request_type, parsed, tool_name, tool_args) ==
    \E t \in TimeNs :
        LET request == ExecutionRequest(n_constructed + 1, t, request_type,
                                        rec.agent_id, parsed, tool_name,
                                        tool_args)
        IN  /\ clock' = t
            /\ n_constructed' = n_constructed + 1
            /\ history' = AppendHistory(history, request, max_history)
            /\ appended' = appended \cup (SeqsOf(history') \ SeqsOf(history))
            /\ calls' = [calls EXCEPT ![c] =
                            [rec EXCEPT !.pc = "mw", !.request = request,
                                        !.mwpos = 1, !.handler = None,
                                        !.path = "none", !.inv = <<>>,
                                        !.stack = <<>>, !.trace = <<>>,
                                        !.begun = @ + 1]]

\* (mutant) the loop runs over self.middlewares, not over its reverse
Reversed_Forward(n) == [i \in 1..n |-> i]

\* reversed(self.middlewares), as positions in middlewares
Reversed(n) == [i \in 1..n |-> n + 1 - i]

\* the loop "handler = self._wrap_middleware(middleware, handler)" over
\* order: each wrapper goes around what was built so far; the result lists
\* the wrappers from the outermost to the innermost
RECURSIVE WrapAll(_, _)
WrapAll(order, chain) ==
    IF order = <<>> THEN chain
    ELSE WrapAll(Tail(order), <<Head(order)>> \o chain)

\* the chain _execute awaits: the middlewares by position, outermost first
Chain == WrapAll(Reversed(Len(middlewares)), <<>>)

\* the awaits "await middleware(request, next_handler)" return innermost
\* first: the order in which the entered middlewares are left
Unwind(stack) == [i \in 1..Len(stack) |-> stack[Len(stack) + 1 - i]]

Exits(positions) == [i \in 1..Len(positions) |-> <<"exit", positions[i]>>]

\* the middleware at position p of middlewares is awaited
Entered(rec, p) ==
    [rec EXCEPT !.stack = Append(@, p), !.trace = Append(@, <<"enter", p>>)]

\* the core dispatcher is awaited
AtCore(rec) == [rec EXCEPT !.trace = Append(@, <<"core", 0>>)]

\* _execute after the chain returned or raised, and the caller's next step
Complete(c, rec, raised, response, error, via, outcome) ==
    LET res == _execute_result(rec.request, raised, response, error)
        rec2 == [rec EXCEPT
                    !.responses = Collect(@, res.response),
                    !.served = Append(@, [request |-> rec.request,
                                          idx |-> rec.idx, via |-> via,
                                          inv |-> rec.inv,
                                          outcome |-> outcome,
                                          trace |-> rec.trace \o
                                                    Exits(Unwind(rec.stack)),
                                          n_reg |-> n_registrations])]
    IN  IF res.raised
        THEN /\ calls' = [calls EXCEPT ![c] = [rec EXCEPT !.pc = "raised"]]
             /\ UNCHANGED <<history, clock, n_constructed, appended>>
        ELSE IF AfterResponse(rec, res.response) = "next"
        THEN BeginRequest(c, [rec2 EXCEPT !.idx = @ + 1], TEXT_COMMAND,
                          rec.parsed[rec.idx + 1], None, <<>>)
        ELSE /\ calls' = [calls EXCEPT ![c] = [rec2 EXCEPT !.pc = "done"]]
             /\ UNCHANGED <<history, clock, n_constructed, appended>>

\* UnifiedCommandBus.execute_text(text, agent_id) up to its first await
StartText(c, text, agent_id) ==
    /\ LET rec == [IdleCall EXCEPT !.kind = "text", !.agent_id = agent_id,
                                   !.text = text,
                                   !.parsed = ParsedTexts[text], !.idx = 1]
       IN  /\ n_constructed + Len(rec.parsed) <= MaxRequests
           /\ IF Len(rec.parsed) = 0
              THEN /\ calls' = [calls EXCEPT ![c] = [rec EXCEPT !.pc = "done"]]
                   /\ UNCHANGED <<history, clock, n_constructed, appended>>
              ELSE BeginRequest(c, rec, TEXT_COMMAND, rec.parsed[1], None, <<>>)
    /\ UNCHANGED <<handlers, tool_handlers, schema_handlers, middlewares, max_history, ticks, probe,
                   n_registrations, last_query>>

\* execute_text called while no other call is in progress
execute_text(c, text, agent_id) ==
    /\ Quiet
    /\ StartText(c, text, agent_id)

\* UnifiedCommandBus.execute_tool(tool_name, tool_args, agent_id) up to
\* its first await
StartTool(c, tool_name, tool_args, agent_id) ==
    /\ n_constructed < MaxRequests
    /\ BeginRequest(c, [IdleCall EXCEPT !.kind = "tool",
                                        !.agent_id = agent_id,
                                        !.tool_name = tool_name,
                                        !.tool_args = tool_args],
                    TOOL_CALL, NoObject, tool_name, tool_args)
    /\ UNCHANGED <<handlers, tool_handlers, schema_handlers, middlewares, max_history, ticks, probe,
                   n_registrations, last_query>>

\* execute_tool called while no other call is in progress
execute_tool(c, tool_name, tool_args, agent_id) ==
    /\ Quiet
    /\ StartTool(c, tool_name, tool_args, agent_id)

\* _wrap_middleware: the middleware at mwpos is awaited with the request
MiddlewareStep(c) ==
    LET rec == calls[c] IN
    /\ rec.pc = "mw"
    /\ rec.mwpos <= Len(Chain)
    /\ LET p == Chain[rec.mwpos]
           entered == Entered(rec, p)
       IN  CASE middlewares[p] = "pass" ->
                    /\ calls' = [calls EXCEPT ![c] =
                                    [entered EXCEPT !.mwpos = @ + 1]]
                    /\ UNCHANGED <<history, clock, n_constructed, appended>>
             [] middlewares[p] = "short" ->
                    Complete(c, entered, FALSE, ShortResponse(rec.request),
                             None, "mw_short", NoOutcome)
             [] middlewares[p] = "raise" ->
                    Complete(c, entered, TRUE, NoObject, MiddlewareError,
                             "mw_raise", NoOutcome)
    /\ UNCHANGED <<handlers, tool_handlers, schema_handlers, middlewares, max_history, ticks, probe,
                   n_registrations, last_query>>

\* the context handler.execute is given: the context of the call on the
\* text path and the routed tool path, the literal {"source": "tool"} of
\* the tool handler _make_tool_handler made on the adapter path; a key
\* that is absent is None
HandlerContext(rec, path) ==
    IF path = "adapter"
    THEN [agent_id |-> None, source |-> "tool"]
    ELSE [agent_id |-> rec.agent_id, source |-> rec.kind]

\* final_handler: _execute_core is awaited with the request
CoreStep(c) ==
    LET rec == AtCore(calls[c])
        d == _execute_core(rec.request)
    IN
    /\ rec.pc = "mw"
    /\ rec.mwpos = Len(Chain) + 1
    /\ CASE d.kind = "invoke" ->
                /\ calls' = [calls EXCEPT ![c] =
                                [rec EXCEPT !.pc = "handler",
                                            !.handler = d.handler,
                                            !.path = d.path,
                                            !.inv = Append(@, <<d.handler, d.path,
                                                       HandlerContext(rec, d.path)>>)]]
                /\ UNCHANGED <<history, clock, n_constructed, appended>>
         [] d.kind = "answer" ->
                Complete(c, rec, FALSE, d.response, None, d.via, NoOutcome)
         [] d.kind = "raise" ->
                Complete(c, rec, TRUE, NoObject, d.error, d.via, NoOutcome)
    /\ UNCHANGED <<handlers, tool_handlers, schema_handlers, middlewares, max_history, ticks, probe,
                   n_registrations, last_query>>

\* the response built from what handler.execute did, on the path that
\* awaited it
HandlerResponse(request, handler, path, outcome) ==
    CASE path = "text" -> TextHandlerResponse(request, handler, outcome)
      [] path = "tool" -> ToolHandlerResponse(request, handler, outcome)
      [] path = "adapter" -> AdapterHandlerResponse(request, handler, outcome)

\* the awaited handler.execute returns or raises
HandlerReturn(c) ==
    LET rec == calls[c] IN
    /\ rec.pc = "handler"
    /\ \E outcome \in HandlerOutcomes :
           Complete(c, rec, FALSE,
                    HandlerResponse(rec.request, rec.handler, rec.path, outcome),
                    None, rec.path, outcome)
    /\ UNCHANGED <<handlers, tool_handlers, schema_handlers, middlewares, max_history, ticks, probe,
                   n_registrations, last_query>>

-----------------------------------------------------------------------------
(* unified_bus.py: get_history *)

\* [r for r in history if r.agent_id == agent_id]
FilterAgent(h, agent_id) == SelectSeq(h, LAMBDA r : r.agent_id = agent_id)

\* UnifiedCommandBus.get_history(agent_id, limit); agent_id None is no filter
GetHistory(h, agent_id, limit) ==
    LET filtered == IF agent_id # None THEN FilterAgent(h, agent_id) ELSE h
    IN  PySliceLast(filtered, limit)

\* the default of the limit parameter
DefaultLimit == 50

Limits == 0..MaxLimit \cup {DefaultLimit}

get_history(agent_id, limit) ==
    /\ Quiet
    /\ history' = history
    /\ last_query' = [asked |-> TRUE, agent_id |-> agent_id, limit |-> limit,
                      before |-> history, after |-> history',
                      result |-> GetHistory(history, agent_id, limit)]
    /\ UNCHANGED <<handlers, tool_handlers, schema_handlers, middlewares, max_history,
                   clock, ticks, probe, calls, n_constructed, appended,
                   n_registrations>>

-----------------------------------------------------------------------------
(* Specification of the bus: setup and one call at a time *)

Next ==
    \/ \E command \in RegisterNames, handler \in Handlers :
           /\ Setup
           /\ n_registrations < MaxRegistrations
           /\ register_handler(command, handler)
    \/ \E middleware \in MiddlewareKinds :
           /\ Setup
           /\ Len(middlewares) < MaxMiddlewares
           /\ add_middleware(middleware)
    \/ \E c \in DOMAIN calls, text \in Texts, agent_id \in Callers :
           execute_text(c, text, agent_id)
    \/ \E c \in DOMAIN calls, tc \in ToolCalls, agent_id \in Callers :
           execute_tool(c, tc[1], tc[2], agent_id)
    \/ \E c \in DOMAIN calls : MiddlewareStep(c)
    \/ \E c \in DOMAIN calls : CoreStep(c)
    \/ \E c \in DOMAIN calls : HandlerReturn(c)

Spec == Init /\ [][Next]_vars

-----------------------------------------------------------------------------
(* Specification of get_history: tool calls of several agents on a bus with *)
(* no handler and no middleware, and get_history between the calls          *)

NextHistory ==
    \/ \E c \in DOMAIN calls, agent_id \in Agents :
           execute_tool(c, <<PREFIX, "status">>, <<>>, agent_id)
    \/ \E c \in DOMAIN calls : CoreStep(c)
    \/ \E agent_id \in Agents \cup {None}, limit \in Limits :
           get_history(agent_id, limit)

SpecHistory == Init /\ [][NextHistory]_vars

-----------------------------------------------------------------------------
(* Specification of routing: one handler registered under cmd or read, then *)
(* text commands and tool calls for both                                    *)

NextRoute ==
    \/ \E command \in RouteNames, handler \in Handlers :
           /\ Setup
           /\ n_registrations < MaxRegistrations
           /\ register_handler(command, handler)
    \/ \E c \in DOMAIN calls, text \in RouteTexts, agent_id \in Callers :
           execute_text(c, text, agent_id)
    \/ \E c \in DOMAIN calls, tool_name \in RouteTools, agent_id \in Callers :
           execute_tool(c, tool_name, <<>>, agent_id)
    \/ \E c \in DOMAIN calls : CoreStep(c)
    \/ \E c \in DOMAIN calls : HandlerReturn(c)

SpecRoute == Init /\ [][NextRoute]_vars

-----------------------------------------------------------------------------
(* Specification of replacement: register_handler under the name read,     *)
(* with a new handler each time, between text commands and tool calls for  *)
(* read                                                                    *)

NextReplace ==
    \/ /\ Quiet
       /\ n_registrations < MaxReplacements
       /\ register_handler(<<"read">>, NthHandler(n_registrations + 1))
    \/ \E c \in DOMAIN calls, agent_id \in Callers :
           execute_text(c, "/read", agent_id)
    \/ \E c \in DOMAIN calls, agent_id \in Callers :
           execute_tool(c, <<PREFIX, "read">>, <<>>, agent_id)
    \/ \E c \in DOMAIN calls : CoreStep(c)
    \/ \E c \in DOMAIN calls : HandlerReturn(c)

\* two calls, so that what the first was answered stays in view while
\* the second is served
InitReplace ==
    /\ handlers = EmptyDict
    /\ tool_handlers = EmptyDict
    /\ schema_handlers = NoSchemaHandlers
    /\ middlewares = << >>
    /\ history = << >>
    /\ max_history \in 1..MaxHistoryCap
    /\ clock = 0
    /\ ticks = {1}
    /\ calls = [c \in {"c1", "c2"} |-> IdleCall]
    /\ n_constructed = 0
    /\ appended = {}
    /\ n_registrations = 0
    /\ last_query = NoQuery
    /\ probe = NoProbe

SpecReplace == InitReplace /\ [][NextReplace]_vars

-----------------------------------------------------------------------------
(* Specification of the chain: up to MaxChain middlewares and a handler    *)
(* for read are set up, then text commands and a tool call are dispatched  *)

NextChain ==
    \/ \E middleware \in MiddlewareKinds :
           /\ Setup
           /\ Len(middlewares) < MaxChain
           /\ add_middleware(middleware)
    \/ \E handler \in Handlers :
           /\ Setup
           /\ n_registrations < MaxRegistrations
           /\ register_handler(<<"read">>, handler)
    \/ \E c \in DOMAIN calls, text \in ChainTexts, agent_id \in Callers :
           execute_text(c, text, agent_id)
    \/ \E c \in DOMAIN calls, agent_id \in Callers :
           execute_tool(c, <<PREFIX, "status">>, <<>>, agent_id)
    \/ \E c \in DOMAIN calls : MiddlewareStep(c)
    \/ \E c \in DOMAIN calls : CoreStep(c)
    \/ \E c \in DOMAIN calls : HandlerReturn(c)

SpecChain == Init /\ [][NextChain]_vars

-----------------------------------------------------------------------------
(* The responses a call has collected *)

Running == { c \in DOMAIN calls : calls[c].pc \in {"mw", "handler"} }

\* <<call, i>> for every response collected so far
Answered ==
    { ci \in (DOMAIN calls) \X (1..MaxRequests + 1) :
          ci[2] <= Len(calls[ci[1]].responses) }

ResponseOf(ci) == calls[ci[1]].responses[ci[2]]
ServedOf(ci) == calls[ci[1]].served[ci[2]]

\* the response came out of the core dispatcher, not out of a middleware
ReachedCore(ci) == ServedOf(ci).via \notin {"mw_short", "mw_raise"}

\* the command line a response answers, as extract_commands found it in
\* the text of the call
LineOf(ci) == ExtractedTexts[calls[ci[1]].text][ServedOf(ci).idx]

\* the name of the text command a response answers
NameOf(ci) == <<LineOf(ci)[1]>>

\* the command line does not tokenize under shell quoting
ShlexFails(ci) == shlex_split(From(FullCmd(LineOf(ci)), 2)).raised

-----------------------------------------------------------------------------
(* C1: when the handler a text command or a tool call is routed to raises  *)
(* an error with message m, the call does not raise: the response has      *)
(* success = false and error = m, and the call goes on to the commands     *)
(* that follow.                                                            *)
C1_HandlerErrorBecomesFailure ==
    /\ \A c \in DOMAIN calls : calls[c].pc # "raised"
    /\ \A ci \in Answered :
           (ServedOf(ci).via \in {"text", "tool"} /\ ServedOf(ci).outcome.raises)
               => /\ ResponseOf(ci).success = FALSE
                  /\ ResponseOf(ci).error = ServedOf(ci).outcome.value
                  /\ ResponseOf(ci).result = None
                  /\ \/ ci[2] = Len(calls[ci[1]].parsed)
                     \/ calls[ci[1]].kind = "tool"
                     \/ calls[ci[1]].begun > ci[2]

\* a text call is done whose first command's handler raised and whose second
\* command's handler returned
C1_Witness ==
    \E c \in DOMAIN calls :
        /\ calls[c].pc = "done"
        /\ Len(calls[c].responses) = 2
        /\ calls[c].served[1].via = "text"
        /\ calls[c].served[1].outcome.raises
        /\ calls[c].served[2].via = "text"
        /\ calls[c].responses[2].success

(* C2: when a middleware or the core dispatcher raises, the call does not  *)
(* raise: the response has success = false, the raised error's text as     *)
(* error and the request_id of the request being dispatched.               *)
C2_ChainErrorBecomesFailure ==
    /\ \A c \in DOMAIN calls : calls[c].pc # "raised"
    /\ \A ci \in Answered :
           ServedOf(ci).via \in {"mw_raise", "core_raise"}
               => /\ ResponseOf(ci).success = FALSE
                  /\ ResponseOf(ci).error =
                         (IF ServedOf(ci).via = "mw_raise"
                          THEN MiddlewareError ELSE DictError)
                  /\ ResponseOf(ci).request_id = ServedOf(ci).request.request_id

\* a response for a request on which the core dispatcher raised
C2_Witness ==
    \E ci \in Answered :
        /\ ServedOf(ci).via = "core_raise"
        /\ ResponseOf(ci).error = DictError

\* a response for a request on which a middleware raised
C2_WitnessMiddleware ==
    \E ci \in Answered :
        /\ ServedOf(ci).via = "mw_raise"
        /\ ResponseOf(ci).error = MiddlewareError

\* the text command of a response has no registered handler and is not help
Unregistered(ci) ==
    /\ calls[ci[1]].kind = "text"
    /\ ReachedCore(ci)
    /\ NameOf(ci) \notin DOMAIN handlers
    /\ NameOf(ci) # <<"help">>

UnknownCommandFailure(ci) ==
    /\ ResponseOf(ci).success = FALSE
    /\ ResponseOf(ci).error = <<"Unknown command: ">> \o NameOf(ci)
    /\ ServedOf(ci).inv = <<>>

(* C3, as claimed: every text command whose name has no registered handler *)
(* and is not help is answered by the core dispatcher with success = false *)
(* and the error "Unknown command: <name>", no handler being invoked.      *)
C3_Original ==
    \A ci \in Answered : Unregistered(ci) => UnknownCommandFailure(ci)

(* C3, amended: the same for the commands whose argument text tokenizes    *)
(* under shell quoting; with an unclosed quotation the answer is a failure *)
(* with the error "Parse error: No closing quotation", no handler invoked. *)
C3_UnknownCommand ==
    \A ci \in Answered :
        Unregistered(ci) =>
            IF ShlexFails(ci)
            THEN /\ ResponseOf(ci).success = FALSE
                 /\ ResponseOf(ci).error =
                        <<"Parse error: ", "No closing quotation">>
                 /\ ServedOf(ci).inv = <<>>
            ELSE UnknownCommandFailure(ci)

\* both kinds of unknown command were answered: one outside the catalog and
\* one of the catalog with no handler registered
C3_Witness ==
    /\ \E ci \in Answered :
           Unregistered(ci) /\ NameOf(ci) = <<"frobnicate">>
    /\ \E ci \in Answered :
           /\ Unregistered(ci) /\ NameOf(ci) = <<"read">>
           /\ ~ShlexFails(ci)

(* C4: for a text-command request whose ParsedCommand is invalid the core  *)
(* dispatcher answers at once with success = false and the ParsedCommand's *)
(* parse error, and invokes no handler: also when a handler is registered  *)
(* under the name the text gave.                                           *)
C4_InvalidParseFailsAtOnce ==
    \A ci \in Answered :
        (/\ calls[ci[1]].kind = "text"
         /\ ReachedCore(ci)
         /\ ~ServedOf(ci).request.parsed_command.valid)
            => /\ ServedOf(ci).via = "invalid"
               /\ ResponseOf(ci).success = FALSE
               /\ ResponseOf(ci).error =
                      ServedOf(ci).request.parsed_command.error
               /\ ResponseOf(ci).error # None
               /\ ServedOf(ci).inv = <<>>

\* an invalid command was answered whose name has a registered handler
C4_Witness ==
    \E ci \in Answered :
        /\ calls[ci[1]].kind = "text"
        /\ ServedOf(ci).via = "invalid"
        /\ NameOf(ci) \in DOMAIN handlers

(* C5: execute_text dispatches the parsed commands one after the other in  *)
(* encounter order: at most one request of the call is in dispatch, it is  *)
(* the one after the last response (also when that response is a failure), *)
(* and the returned list holds one response per parsed command, the i-th   *)
(* answering the request built from the i-th parsed command.               *)
C5_SequentialInOrder ==
    \A c \in DOMAIN calls :
        calls[c].kind = "text" =>
            /\ Len(calls[c].served) = Len(calls[c].responses)
            /\ calls[c].begun <= Len(calls[c].responses) + 1
            /\ c \in Running =>
                   /\ calls[c].begun = Len(calls[c].responses) + 1
                   /\ calls[c].idx = calls[c].begun
                   /\ calls[c].request.parsed_command =
                          calls[c].parsed[calls[c].idx]
            /\ calls[c].pc = "done" =>
                   Len(calls[c].responses) = Len(calls[c].parsed)
            /\ \A i \in 1..Len(calls[c].responses) :
                   /\ calls[c].served[i].idx = i
                   /\ calls[c].served[i].request.parsed_command =
                          calls[c].parsed[i]
                   /\ i > 1 => calls[c].served[i].request.seq >
                                   calls[c].served[i - 1].request.seq

\* the second command of a text is in dispatch after the first one failed
C5_Witness ==
    \E c \in Running :
        /\ calls[c].kind = "text"
        /\ calls[c].begun = 2
        /\ Len(calls[c].responses) = 1
        /\ ~calls[c].responses[1].success

(* C6: the history is the most recent min(n, max_history) constructed      *)
(* requests in arrival order, n being the number of requests constructed:  *)
(* its length never exceeds max_history and the oldest are evicted.        *)
C6_HistoryIsMostRecent ==
    /\ Len(history) = Min(n_constructed, max_history)
    /\ Len(history) <= max_history
    /\ \A i \in 1..Len(history) :
           history[i].seq = n_constructed - Len(history) + i

\* more requests were constructed than the history holds
C6_Witness == n_constructed > max_history /\ Len(history) = max_history

(* C7: a request is appended to the history before a middleware or a       *)
(* handler runs for it: every request in dispatch and every request that   *)
(* was answered, whatever its outcome, has been appended; while a request  *)
(* is in dispatch it is the newest entry of the history.                   *)
C7_AppendedBeforeDispatch ==
    /\ \A c \in Running :
           /\ calls[c].request.seq \in appended
           /\ Len(history) > 0
           /\ history[Len(history)] = calls[c].request
    /\ \A ci \in Answered : ServedOf(ci).request.seq \in appended
    /\ appended = 1..n_constructed

\* a request is in the history and no middleware has run for it yet, and a
\* request a middleware short-circuited was answered
C7_Witness ==
    /\ \E c \in Running : calls[c].pc = "mw" /\ calls[c].mwpos = 1
                          /\ Len(middlewares) > 0
    /\ \E ci \in Answered : ServedOf(ci).via = "mw_short"

\* the requests with the arrival numbers n - k + 1 .. n, in that order
IsMostRecent(r, k) ==
    /\ Len(r) = k
    /\ \A i \in 1..Len(r) : r[i].seq = n_constructed - k + i

(* C8, as claimed: after max_history + K requests get_history with no      *)
(* limit argument returns at most max_history entries and they are the K   *)
(* most recent requests in arrival order.                                  *)
C8_Original ==
    n_constructed > max_history =>
        LET r == GetHistory(history, None, DefaultLimit)
        IN  /\ Len(r) <= max_history
            /\ IsMostRecent(r, n_constructed - max_history)

(* C8, amended: after max_history + K requests get_history with no limit   *)
(* argument returns at most max_history entries and they are the           *)
(* min(max_history, 50) most recent requests in arrival order, 50 being    *)
(* the default limit.                                                      *)
C8_HistoryCap ==
    n_constructed > max_history =>
        LET r == GetHistory(history, None, DefaultLimit)
        IN  /\ Len(r) <= max_history
            /\ IsMostRecent(r, Min(max_history, DefaultLimit))

\* one request more than a max_history of 2 was dispatched
C8_Witness ==
    /\ max_history = 2
    /\ n_constructed = max_history + 1
    /\ Quiet

\* the entries of h an agent filter keeps (all of them for None)
Matching(h, agent_id) ==
    IF agent_id = None THEN h ELSE SelectSeq(h, LAMBDA r : r.agent_id = agent_id)

(* C9: get_history(agent_id, limit) returns at most limit entries, the     *)
(* most recent entries of the agent (of all agents when none is given) in  *)
(* arrival order, and leaves the history unchanged.                        *)
C9_GetHistory ==
    last_query.asked =>
        LET m == Matching(last_query.before, last_query.agent_id)
            k == Min(last_query.limit, Len(m))
        IN  /\ Len(last_query.result) <= last_query.limit
            /\ last_query.result = SubSeq(m, Len(m) - k + 1, Len(m))
            /\ last_query.after = last_query.before

(* C10: a tool call whose name with the harness_ prefix removed is a       *)
(* registered command name is answered by that command's handler, invoked  *)
(* once on the routed path with a ParsedCommand for that command, and the  *)
(* response has the success flag, result and error the text path gives for *)
(* the same outcome of the handler.                                        *)
C10_ToolRoutedLikeText ==
    \A ci \in Answered :
        LET sv == ServedOf(ci)
            cmd == StripPrefix(sv.request.tool_name)
            asText == TextHandlerResponse(
                          [sv.request EXCEPT !.parsed_command =
                               tool_to_command(sv.request.tool_name,
                                               sv.request.tool_args)],
                          handlers[cmd], sv.outcome)
        IN  (/\ calls[ci[1]].kind = "tool"
             /\ ReachedCore(ci)
             /\ sv.request.tool_args # NotAMapping
             /\ cmd \in DOMAIN handlers)
                => /\ sv.via = "tool"
                   /\ Len(sv.inv) = 1
                   /\ sv.inv[1][1] = handlers[cmd]
                   /\ sv.inv[1][2] = "tool"
                   /\ ResponseOf(ci).success = asText.success
                   /\ ResponseOf(ci).result = asText.result
                   /\ ResponseOf(ci).error = asText.error

-----------------------------------------------------------------------------
(* Registration and the chain *)

\* the request of a response is a valid text command named command
TextFor(ci, command) ==
    LET request == ServedOf(ci).request IN
    /\ request.request_type = TEXT_COMMAND
    /\ request.parsed_command.valid
    /\ request.parsed_command.command = command

\* the request of a response is a call, with a mapping as arguments, of the
\* tool that tool_to_command maps to command
ToolFor(ci, command) ==
    LET request == ServedOf(ci).request IN
    /\ request.request_type = TOOL_CALL
    /\ request.tool_args # NotAMapping
    /\ tool_to_command(request.tool_name, request.tool_args).command = command

\* exactly one handler invocation was made for the request, of handler
ServedBy(ci, handler) ==
    /\ Len(ServedOf(ci).inv) = 1
    /\ ServedOf(ci).inv[1][1] = handler

(* C11: once a handler h is registered under a command c, the text command *)
(* /c and the call of the tool that tool_to_command maps to c are both     *)
(* served by h: exactly one invocation, of h.                              *)
C11_OneBehaviourPerCommand ==
    \A ci \in Answered : \A command \in DOMAIN handlers :
        (TextFor(ci, command) \/ ToolFor(ci, command))
            => ServedBy(ci, handlers[command])

(* C12: once register_handler was called k >= 2 times under the name read, *)
(* each with a new handler, every text command /read and every call of     *)
(* harness_read dispatched afterwards makes exactly one handler            *)
(* invocation, of the handler of the k-th call; no earlier handler is      *)
(* invoked again.                                                          *)
C12_SecondRegistrationReplaces ==
    \A ci \in Answered :
        (/\ ServedOf(ci).n_reg >= 2
         /\ TextFor(ci, <<"read">>) \/ ToolFor(ci, <<"read">>))
            => ServedBy(ci, NthHandler(ServedOf(ci).n_reg))

\* the first handler served a text command, and after the second
\* registration the second handler served one
C12_Witness ==
    \E c1, c2 \in Answered :
        /\ ServedOf(c1).n_reg = 1 /\ TextFor(c1, <<"read">>)
        /\ ServedBy(c1, NthHandler(1))
        /\ ServedOf(c2).n_reg = 2 /\ TextFor(c2, <<"read">>)
        /\ ServedBy(c2, NthHandler(2))

\* the same for the tool harness_read
C12_WitnessTool ==
    \E t1, t2 \in Answered :
        /\ ServedOf(t1).n_reg = 1 /\ ToolFor(t1, <<"read">>)
        /\ ServedBy(t1, NthHandler(1))
        /\ ServedOf(t2).n_reg = 2 /\ ToolFor(t2, <<"read">>)
        /\ ServedBy(t2, NthHandler(2))

\* the first middleware of the list that does not call next, or one more
\* than the length of the list when every middleware calls next
RECURSIVE FirstStop(_, _)
FirstStop(mws, p) ==
    IF p > Len(mws) \/ mws[p] # "pass" THEN p ELSE FirstStop(mws, p + 1)

\* the trace of a request through the list of middlewares mws: they are
\* entered in registration order up to the first that does not call next,
\* the core dispatcher runs when there is none, and they are left in the
\* reverse order
ExpectedTrace(mws) ==
    LET stop == FirstStop(mws, 1)
        last == Min(stop, Len(mws))
    IN  [p \in 1..last |-> <<"enter", p>>]
        \o (IF stop > Len(mws) THEN << <<"core", 0>> >> ELSE <<>>)
        \o [i \in 1..last |-> <<"exit", last + 1 - i>>]

(* C13: the middlewares run in registration order, the first one added     *)
(* first; each later one runs only when the one before it called next; the *)
(* core dispatcher runs only when the last one called next; they are left  *)
(* in the reverse order; when a middleware does not call next, no later    *)
(* middleware, no core dispatcher and no handler runs for that request.    *)
C13_ChainOrder ==
    \A ci \in Answered :
        /\ ServedOf(ci).trace = ExpectedTrace(middlewares)
        /\ FirstStop(middlewares, 1) <= Len(middlewares)
               => /\ ServedOf(ci).inv = <<>>
                  /\ ~ReachedCore(ci)

\* the chain has two middlewares; a request went through both to a handler
\* and back
C13_Witness ==
    /\ middlewares = <<"pass", "pass">>
    /\ \E ci \in Answered :
           /\ Len(ServedOf(ci).inv) = 1
           /\ ServedOf(ci).trace =
                  << <<"enter", 1>>, <<"enter", 2>>, <<"core", 0>>,
                     <<"exit", 2>>, <<"exit", 1>> >>

\* the second of two middlewares answered without calling next
C13_WitnessShort ==
    /\ middlewares = <<"pass", "short">>
    /\ \E ci \in Answered :
           /\ ServedOf(ci).via = "mw_short"
           /\ ServedOf(ci).request.parsed_command # NoObject
           /\ ServedOf(ci).request.parsed_command.command \in DOMAIN handlers

-----------------------------------------------------------------------------
(* tool_adapter.py: ToolAdapter.execute, called on its own *)

\* self.max_history of a bus constructed with no argument
DEFAULT_MAX_HISTORY == 1000

\* a bus as its constructor leaves it, with nothing registered and no call
Constructed ==
    /\ handlers = EmptyDict
    /\ tool_handlers = EmptyDict
    /\ schema_handlers = NoSchemaHandlers
    /\ middlewares = << >>
    /\ history = << >>
    /\ max_history = DEFAULT_MAX_HISTORY
    /\ clock = 0
    /\ ticks = {1}
    /\ calls = [c \in {"c1"} |-> IdleCall]
    /\ n_constructed = 0
    /\ appended = {}
    /\ n_registrations = 0
    /\ last_query = NoQuery

\* ToolResult; timed says whether execution_time_ms was given (it is the
\* elapsed time, else the default 0)
ToolResult(tool_name, success, result, error, timed) ==
    [tool_name |-> tool_name, success |-> success, result |-> result,
     error |-> error, timed |-> timed]

\* what a call returned to its caller, or that it raised
Returned(value) == [raised |-> FALSE, error |-> None, value |-> value]
Propagated(error) == [raised |-> TRUE, error |-> error, value |-> NoObject]

\* self.handlers.get(tool_name)
DictGet(d, k) == IF k \in DOMAIN d THEN d[k] ELSE None

\* a or b, for handlers (a callable is true, None is false)
PyOr(a, b) == IF a # None THEN a ELSE b

\* str(e) of the TypeError of handler(**arguments) when arguments is not a
\* mapping
StarStarError == <<"argument after ** must be a mapping">>

\* handler(**arguments): unpacking fails before the handler runs when
\* arguments is not a mapping, else the handler does what it does
CallHandler(handler, arguments, behaviour) ==
    IF arguments = NotAMapping
    THEN [raises |-> TRUE, value |-> StarStarError]
    ELSE behaviour[handler]

\* (mutant) execute without its except clause
ExecuteOutcome_NoExcept(tool_name, call) ==
    IF call.raises
    THEN Propagated(call.value)
    ELSE Returned(ToolResult(tool_name, TRUE, call.value, None, TRUE))

\* the try statement of ToolAdapter.execute around the call of the handler
ExecuteOutcome(tool_name, call) ==
    IF call.raises
    THEN Returned(ToolResult(tool_name, FALSE, None, call.value, TRUE))
    ELSE Returned(ToolResult(tool_name, TRUE, call.value, None, TRUE))

\* ToolAdapter.execute(tool_name, arguments) of an adapter whose tools have
\* the schema-bound handlers tools and whose self.handlers is own_handlers;
\* behaviour says what each handler does when it is called
execute(tools, own_handlers, behaviour, tool_name, arguments) ==
    IF tool_name \notin DOMAIN tools
    THEN Returned(ToolResult(tool_name, FALSE, None,
                             <<"Unknown tool: ">> \o tool_name, FALSE))
    ELSE LET handler == PyOr(DictGet(own_handlers, tool_name),
                             tools[tool_name])
         IN  IF handler = None
             THEN Returned(ToolResult(tool_name, FALSE, None,
                                      <<"No handler for tool: ">> \o tool_name,
                                      FALSE))
             ELSE ExecuteOutcome(tool_name,
                                 CallHandler(handler, arguments, behaviour))

\* the adapters and calls execute is applied to: a tool of HARNESS_TOOLS or
\* an unknown name, with or without a handler of either kind
AdapterToolNames == { <<PREFIX, "read">>, <<PREFIX, "shell">>, <<"nope">> }
AdapterHandlers == { <<"h1">>, <<"h2">> }
AdapterInputs ==
    { [tools |-> [t \in HARNESS_TOOLS |->
                      IF t = n THEN schema ELSE None],
       own_handlers |-> IF own THEN DictSet(EmptyDict, n, <<"h1">>)
                               ELSE EmptyDict,
       behaviour |-> b, tool_name |-> n, arguments |-> a] :
          n \in AdapterToolNames,
          schema \in {None, <<"h2">>},
          own \in BOOLEAN,
          b \in [AdapterHandlers -> HandlerOutcomes],
          a \in ToolArgs }

InitAdapter ==
    /\ Constructed
    /\ probe \in { [fn |-> "execute", input |-> i, done |-> FALSE,
                     output |-> NoObject] : i \in AdapterInputs }

ApplyExecute ==
    /\ probe.fn = "execute"
    /\ ~probe.done
    /\ LET i == probe.input IN
       probe' = [probe EXCEPT
                    !.done = TRUE,
                    !.output = execute(i.tools, i.own_handlers, i.behaviour,
                                       i.tool_name, i.arguments)]
    /\ UNCHANGED <<handlers, tool_handlers, schema_handlers, middlewares, history,
                   max_history, clock, ticks, calls, n_constructed, appended,
                   n_registrations, last_query>>

NextAdapter == ApplyExecute

SpecAdapter == InitAdapter /\ [][NextAdapter]_vars

\* execute was applied
Executed == probe.fn = "execute" /\ probe.done

\* the tool of the call is known / has a handler of either kind
KnownTool == probe.input.tool_name \in HARNESS_TOOLS
HasHandler ==
    \/ probe.input.tool_name \in DOMAIN probe.input.own_handlers
    \/ probe.input.tools[probe.input.tool_name] # None

\* the handler the adapter has for the tool: the instance-level one when
\* there is one, else the schema-bound one
HandlerFor ==
    IF probe.input.tool_name \in DOMAIN probe.input.own_handlers
    THEN probe.input.own_handlers[probe.input.tool_name]
    ELSE probe.input.tools[probe.input.tool_name]

\* calling the handler with the arguments raises: the handler raises, or
\* the arguments cannot be unpacked
CallRaises ==
    \/ probe.input.arguments = NotAMapping
    \/ probe.input.behaviour[HandlerFor].raises

(* C14: ToolAdapter.execute never raises: it returns a ToolResult for the  *)
(* tool name; for an unknown name a failure with error 'Unknown tool:      *)
(* <name>'; for a known tool without an instance-level or schema-bound     *)
(* handler a failure; when the call of the handler raises a failure whose  *)
(* error is the error's text; otherwise a success with the handler's       *)
(* return value.                                                           *)
C14_ExecuteIsTotal ==
    Executed =>
        LET name == probe.input.tool_name
            out  == probe.output
            res  == probe.output.value
        IN  /\ ~out.raised
            /\ res.tool_name = name
            /\ ~KnownTool =>
                   /\ ~res.success
                   /\ res.result = None
                   /\ res.error = <<"Unknown tool: ">> \o name
            /\ (KnownTool /\ ~HasHandler) =>
                   /\ ~res.success
                   /\ res.result = None
                   /\ res.error # None
            /\ (KnownTool /\ HasHandler /\ CallRaises) =>
                   /\ ~res.success
                   /\ res.result = None
                   /\ res.error =
                          IF probe.input.arguments = NotAMapping
                          THEN StarStarError
                          ELSE probe.input.behaviour[HandlerFor].value
            /\ (KnownTool /\ HasHandler /\ ~CallRaises) =>
                   /\ res.success
                   /\ res.result = probe.input.behaviour[HandlerFor].value
                   /\ res.error = None

\* a handler raised and the caller got a failure result with its text
C14_Witness ==
    /\ Executed
    /\ KnownTool /\ HasHandler
    /\ probe.input.arguments # NotAMapping
    /\ probe.input.behaviour[HandlerFor].raises
    /\ ~probe.output.raised
    /\ ~probe.output.value.success
    /\ probe.output.value.error = probe.input.behaviour[HandlerFor].value

\* the other three cases: unknown name (with an instance-level handler),
\* known tool without handler, and a schema-bound handler that returns
C14_WitnessUnknown ==
    /\ Executed /\ ~KnownTool /\ HasHandler
    /\ probe.output.value.error = <<"Unknown tool: ", "nope">>
C14_WitnessNoHandler ==
    /\ Executed /\ KnownTool /\ ~HasHandler
    /\ probe.output.value.error = <<"No handler for tool: ", PREFIX, "shell">>
C14_WitnessSuccess ==
    /\ Executed /\ KnownTool /\ ~CallRaises
    /\ HandlerFor = <<"h2">>
    /\ probe.output.value.success

-----------------------------------------------------------------------------
(* command_parser.py: the parser called on its own *)

MaxLines == 2          \* lines of a text given to parse_all
MaxPieces == 2         \* pieces a flag value is put together from

\* the strings parse is applied to: not a command, an empty command,
\* commands inside and outside the catalog, in upper case, with quoting that
\* shlex rejects, with and without subcommands, and with flags of every form
ParseInputs ==
    { "", "read a.txt", "/", "  /help  ",
      "/read path.txt --lines 10",
      "/sandbox create mybox --type shared",
      "/Read a.txt", "/READ",
      "/read \"abc", "/read abc\\", "/read 'a b' c",
      "/frobnicate x",
      "/sandbox CREATE mybox", "/sandbox mybox create",
      "/sandbox --type shared create", "/sandbox", "/sandbox nosuch",
      "/read create", "/skill list", "/eval status -v",
      "/write f --force", "/write f --mode=a=b -n 5 -x",
      "/search q --n 1 --r 1.5 -b yes -b NO",
      "/read -- x", "/read - x", "/read -ab",
      "/read --lines 10 path.txt", "/search --limit 007 'a b' p",
      "/edit --all YES --old '' f", "/sandbox --type x create",
      "/sandbox create --type shared m", "/write --n=-5 f" }

\* the lines of the texts parse_all and extract_commands are applied to
ParserLines ==
    { "/read a.txt", "/Read a.txt", "/help", "/read \"abc", "  /status ",
      "more text", "", " " }

ParserTexts ==
    { join("\n", ls) : ls \in UNION { [1..n -> ParserLines] : n \in 1..MaxLines } }

\* the flag values _parse_flag_value is applied to: up to MaxPieces pieces
FlagPieces ==
    { "true", "Yes", "NO", "false", "0", "1", "5", "-", "+", ".", "e", "_",
      " ", "x", "inf" }

RECURSIVE Concat(_)
Concat(pieces) ==
    IF pieces = <<>> THEN "" ELSE Head(pieces) \o Concat(Tail(pieces))

FlagValues ==
    { Concat(ps) : ps \in UNION { [1..n -> FlagPieces] : n \in 0..MaxPieces } }

\* a function of the parser and the input it is about to be applied to
Pending(fn, input) ==
    [fn |-> fn, input |-> input, done |-> FALSE, output |-> NoObject]

InitParser ==
    /\ Constructed
    /\ probe \in { Pending("parse", t) : t \in ParseInputs }
                 \cup { Pending("parse_all", t) : t \in ParserTexts }
                 \cup { Pending("extract_commands", t) : t \in ParserTexts }
                 \cup { Pending("_parse_flag_value", v) : v \in FlagValues }

\* the function is applied and its outcome kept
Apply(fn, output) ==
    /\ probe.fn = fn
    /\ ~probe.done
    /\ probe' = [probe EXCEPT !.done = TRUE, !.output = output]
    /\ UNCHANGED <<handlers, tool_handlers, schema_handlers, middlewares, history,
                   max_history, clock, ticks, calls, n_constructed, appended,
                   n_registrations, last_query>>

ApplyParse == Apply("parse", parse_call(probe.input))
ApplyParseAll == Apply("parse_all", parse_all_call(probe.input))
ApplyExtract == Apply("extract_commands", extract_commands(probe.input))
ApplyFlagValue == Apply("_parse_flag_value", _parse_flag_value(probe.input))

NextParser ==
    \/ ApplyParse
    \/ ApplyParseAll
    \/ ApplyExtract
    \/ ApplyFlagValue

SpecParser == InitParser /\ [][NextParser]_vars

\* the function was applied
Applied(fn) == probe.fn = fn /\ probe.done

-----------------------------------------------------------------------------
(* The parser: claims *)

(* C15: parse and parse_all return without raising for every input string, *)
(* and every ParsedCommand they produce with valid = false has an error    *)
(* that is not None.                                                       *)
C15_ParserNeverRaises ==
    /\ Applied("parse") =>
           /\ ~probe.output.raised
           /\ ~probe.output.value.valid => probe.output.value.error # None
    /\ Applied("parse_all") =>
           /\ ~probe.output.raised
           /\ \A i \in 1..Len(probe.output.value) :
                  ~probe.output.value[i].valid
                      => probe.output.value[i].error # None

\* shlex.split rejected the input of parse, and parse returned an invalid
\* command that carries the error
C15_Witness ==
    /\ Applied("parse")
    /\ shlex_split(From(strip(probe.input), 2)).raised
    /\ ~probe.output.raised
    /\ ~probe.output.value.valid
    /\ probe.output.value.error = <<"Parse error: ", "No closing quotation">>

\* the same inside parse_all, after a valid command
C15_WitnessAll ==
    /\ Applied("parse_all")
    /\ ~probe.output.raised
    /\ Len(probe.output.value) = 2
    /\ probe.output.value[1].valid
    /\ probe.output.value[2].error = <<"Parse error: ", "No closing quotation">>

\* the lines of the input, and whether every one of them starts with /
LinesOf(text) == split(text, "\n")
AllSlashLines(text) ==
    \A i \in 1..Len(LinesOf(text)) : startswith(LinesOf(text)[i], "/")

(* C16: parse_all of a text of N lines that all start with / returns       *)
(* exactly N results, the i-th being what parse returns for the i-th line. *)
C16_OneResultPerLine ==
    (Applied("parse_all") /\ AllSlashLines(probe.input)) =>
        /\ ~probe.output.raised
        /\ Len(probe.output.value) = Len(LinesOf(probe.input))
        /\ \A i \in 1..Len(LinesOf(probe.input)) :
               probe.output.value[i] = parse(LinesOf(probe.input)[i])

\* the positions of the lines whose trimmed content starts with /
SlashLines(lines) ==
    { i \in 1..Len(lines) : startswith(strip(lines[i]), "/") }

\* the k-th smallest member of a set of positions
RECURSIVE Kth(_, _)
Kth(S, k) ==
    LET least == CHOOSE i \in S : \A j \in S : i <= j
    IN  IF k = 1 THEN least ELSE Kth(S \ {least}, k - 1)

\* the trimmed non-empty lines after position i up to the next line that
\* starts with /, joined by spaces
RECURSIVE Continuation(_, _)
Continuation(lines, i) ==
    IF i + 1 > Len(lines) \/ i + 1 \in SlashLines(lines) THEN ""
    ELSE LET here == strip(lines[i + 1])
             more == Continuation(lines, i + 1)
         IN  IF here = "" THEN more
             ELSE IF more = "" THEN here
             ELSE here \o " " \o more

\* s ends with suffix
EndsWith(s, suffix) ==
    /\ Len(suffix) <= Len(s)
    /\ SubSeq(s, Len(s) - Len(suffix) + 1, Len(s)) = suffix

(* C17: extract_commands gives one command for every line whose trimmed    *)
(* content starts with /, in the order of the lines, and the argument line *)
(* of each ends with the following non-empty lines that do not start with  *)
(* /, joined by spaces; a text with no such line gives no command.         *)
C17_ExtractScansLines ==
    Applied("extract_commands") =>
        LET lines == LinesOf(probe.input)
            slash == SlashLines(lines)
        IN  /\ Len(probe.output) = Cardinality(slash)
            /\ \A k \in 1..Cardinality(slash) :
                   /\ k <= Len(probe.output)
                   /\ EndsWith(probe.output[k][2],
                               Continuation(lines, Kth(slash, k)))

(* C18 as stated: a value in {true, yes, 1} becomes true and one in        *)
(* {false, no, 0} false; any other value that parses as an integer becomes *)
(* that integer; otherwise a valid float string becomes a float; otherwise *)
(* the string is kept unchanged.                                           *)
C18_Original ==
    Applied("_parse_flag_value") =>
        LET value == probe.input IN
        IF value \in {"true", "yes", "1"} THEN probe.output = PyBool(TRUE)
        ELSE IF value \in {"false", "no", "0"} THEN probe.output = PyBool(FALSE)
        ELSE IF IntParses(value) THEN probe.output = PyInt(IntOf(value))
        ELSE IF FloatParses(value) THEN probe.output[1] = "float"
        ELSE probe.output = PyStr(value)

(* C18: a value whose lower-cased form is in {true, yes, 1} becomes true   *)
(* and one whose lower-cased form is in {false, no, 0} false, so that 1    *)
(* and 0 never become integers; any other value that parses as an integer  *)
(* becomes that integer; otherwise a valid float string becomes a float;   *)
(* otherwise the string is kept unchanged.                                 *)
C18_CoercionOrder ==
    Applied("_parse_flag_value") =>
        LET value == probe.input
            truthy == lower(value) \in {"true", "yes", "1"}
            falsy  == lower(value) \in {"false", "no", "0"}
        IN  /\ truthy => probe.output = PyBool(TRUE)
            /\ falsy => probe.output = PyBool(FALSE)
            /\ (~truthy /\ ~falsy /\ IntParses(value))
                   => probe.output = PyInt(IntOf(value))
            /\ (~truthy /\ ~falsy /\ ~IntParses(value) /\ FloatParses(value))
                   => probe.output[1] = "float"
            /\ (~truthy /\ ~falsy /\ ~IntParses(value) /\ ~FloatParses(value))
                   => probe.output = PyStr(value)

\* the value 1, which parses as an integer, became true
C18_Witness ==
    /\ Applied("_parse_flag_value")
    /\ probe.input = "1"
    /\ IntParses(probe.input)
    /\ probe.output = PyBool(TRUE)

\* a word in upper case, an integer, a float and a string
C18_WitnessUpper ==
    Applied("_parse_flag_value") /\ probe.input = "NO"
        /\ probe.output = PyBool(FALSE)
C18_WitnessInt ==
    Applied("_parse_flag_value") /\ probe.input = "-5"
        /\ probe.output = PyInt(0 - 5)
C18_WitnessFloat ==
    Applied("_parse_flag_value") /\ probe.input = "5."
        /\ probe.output[1] = "float"
C18_WitnessStr ==
    Applied("_parse_flag_value") /\ probe.input = "5x"
        /\ probe.output = PyStr("5x")

\* parse was applied to scenario A
ScenarioA == Applied("parse") /\ probe.input = "/read path.txt --lines 10"

(* C19 as stated: parse('/read path.txt --lines 10') yields command read,  *)
(* no positional argument, flags {lines: 10} and valid = true.             *)
C19_Original ==
    ScenarioA =>
        /\ ~probe.output.raised
        /\ probe.output.value.command = <<"read">>
        /\ probe.output.value.args = <<>>
        /\ probe.output.value.flags = << <<"lines", PyInt(10)>> >>
        /\ probe.output.value.valid

(* C19: parse('/read path.txt --lines 10') yields command read, the one    *)
(* positional argument path.txt, flags {lines: 10} with 10 an integer, no  *)
(* subcommand and valid = true.                                            *)
C19_ScenarioA ==
    ScenarioA =>
        /\ ~probe.output.raised
        /\ probe.output.value.command = <<"read">>
        /\ probe.output.value.subcommand = None
        /\ probe.output.value.args = <<"path.txt">>
        /\ probe.output.value.flags = << <<"lines", PyInt(10)>> >>
        /\ probe.output.value.valid
        /\ probe.output.value.error = None

C19_Witness == ScenarioA /\ Len(probe.output.value.args) = 1

\* the tokens of the input of parse after the command name
RestOf(text) == Tail(shlex_split(From(strip(text), 2)).tokens)

\* the command of the result declares subcommands and the token after the
\* command name, lower-cased, is one of them
NamesSubcommand ==
    /\ probe.output.value.command \in DOMAIN SUBCOMMANDS
    /\ RestOf(probe.input) # <<>>
    /\ lower(Head(RestOf(probe.input)))
           \in SUBCOMMANDS[probe.output.value.command]

(* C20: when the definition of the command declares subcommands and the    *)
(* token after the command name, lower-cased, is one of them, parse makes  *)
(* it the subcommand and reads args and flags from the tokens after it; in *)
(* every other case the subcommand is None and args and flags are read     *)
(* from all the tokens after the command name. '/sandbox create mybox      *)
(* --type shared' gives command sandbox, subcommand create, args [mybox],  *)
(* flags {type: shared}.                                                   *)
C20_SubcommandConsumed ==
    (Applied("parse") /\ ~probe.output.raised /\ probe.output.value.valid) =>
        LET out == probe.output.value
            rest == RestOf(probe.input)
            read(tokens) == ParseLoop(tokens, 1, <<>>, <<>>)
        IN  /\ NamesSubcommand =>
                   /\ out.subcommand = <<lower(Head(rest))>>
                   /\ out.args = read(Tail(rest)).args
                   /\ out.flags = read(Tail(rest)).flags
            /\ ~NamesSubcommand =>
                   /\ out.subcommand = None
                   /\ out.args = read(rest).args
                   /\ out.flags = read(rest).flags
            /\ probe.input = "/sandbox create mybox --type shared" =>
                   /\ out.command = <<"sandbox">>
                   /\ out.subcommand = <<"create">>
                   /\ out.args = <<"mybox">>
                   /\ out.flags = << <<"type", PyStr("shared")>> >>

\* scenario B was parsed
C20_Witness ==
    /\ Applied("parse")
    /\ probe.input = "/sandbox create mybox --type shared"
    /\ NamesSubcommand
    /\ probe.output.value.subcommand = <<"create">>
    /\ probe.output.value.args = <<"mybox">>

\* a subcommand name after a positional argument, and after a command that
\* declares no subcommands, stays an argument
C20_WitnessOrdinary ==
    /\ Applied("parse")
    /\ probe.input = "/sandbox mybox create"
    /\ probe.output.value.subcommand = None
    /\ probe.output.value.args = <<"mybox", "create">>
C20_WitnessUndeclared ==
    /\ Applied("parse")
    /\ probe.input = "/read create"
    /\ probe.output.value.subcommand = None
    /\ probe.output.value.args = <<"create">>

-----------------------------------------------------------------------------
(* The parser: parse after re-serialization *)

\* the decimal numeral of a natural number
RECURSIVE ToDecimal(_)
ToDecimal(n) ==
    IF n < 10 THEN Char(DIGITS, n + 1)
    ELSE ToDecimal(n \div 10) \o Char(DIGITS, (n % 10) + 1)

\* the characters a shell word can hold without quoting
SAFE_CHARS == LOWERCASE \o UPPERCASE \o DIGITS \o "@%+=:,./-_"

RECURSIVE IsSafe(_)
IsSafe(s) == s = "" \/ (Index(SAFE_CHARS, Char(s, 1)) # 0 /\ IsSafe(From(s, 2)))

\* s with every ' written as '"'"'
RECURSIVE EscapeQuotes(_)
EscapeQuotes(s) ==
    IF s = "" THEN ""
    ELSE (IF Char(s, 1) = "'" THEN "'\"'\"'" ELSE Char(s, 1))
         \o EscapeQuotes(From(s, 2))

\* s as one shell word
Quote(s) ==
    IF s # "" /\ IsSafe(s) THEN s ELSE "'" \o EscapeQuotes(s) \o "'"

\* a flag value as text
Render(v) ==
    CASE v[1] = "bool"  -> v[2]
      [] v[1] = "int"   -> IF v[2] < 0 THEN "-" \o ToDecimal(0 - v[2])
                           ELSE ToDecimal(v[2])
      [] v[1] = "float" -> v[2]
      [] v[1] = "str"   -> Quote(v[2])

\* the words of the flags, each as --name value
RECURSIVE FlagWords(_)
FlagWords(flags) ==
    IF flags = <<>> THEN <<>>
    ELSE <<"--" \o flags[1][1], Render(flags[1][2])>> \o FlagWords(Tail(flags))

\* (command, subcommand, args, flags) written as one line of the form
\* /cmd [subcommand] --flag value ... arg ...
Serialize(parsed) ==
    join(" ", <<"/" \o parsed.command[1]>>
              \o (IF parsed.subcommand = None THEN <<>>
                  ELSE <<parsed.subcommand[1]>>)
              \o FlagWords(parsed.flags)
              \o [i \in 1..Len(parsed.args) |-> Quote(parsed.args[i])])

\* words of the form --flag value ... arg ...: every flag is a word
\* --name followed by its value, and the arguments follow the flags
RECURSIVE FlagsThenArgs(_)
FlagsThenArgs(words) ==
    IF words = <<>> THEN TRUE
    ELSE IF startswith(words[1], "--")
    THEN /\ Len(words[1]) > 2
         /\ Index(words[1], "=") = 0
         /\ Len(words) >= 2
         /\ ~startswith(words[2], "-")
         /\ FlagsThenArgs(Tail(Tail(words)))
    ELSE \A i \in 1..Len(words) : ~startswith(words[i], "-")

\* parse returned a valid command for a line of the form
\* /cmd [subcommand] --flag value ... arg ...
WellFormed ==
    /\ Applied("parse")
    /\ ~probe.output.raised
    /\ probe.output.value.valid
    /\ FlagsThenArgs(IF probe.output.value.subcommand = None
                     THEN RestOf(probe.input)
                     ELSE Tail(RestOf(probe.input)))

\* two flag mappings hold the same items
SameFlags(f, g) ==
    { f[i] : i \in 1..Len(f) } = { g[i] : i \in 1..Len(g) }

C21_WitnessSubcommand ==
    /\ WellFormed
    /\ probe.input = "/sandbox create --type shared m"
    /\ Serialize(probe.output.value) = probe.input
C21_WitnessArgument ==
    /\ WellFormed
    /\ probe.input = "/sandbox --type x create"
    /\ probe.output.value.subcommand = None

-----------------------------------------------------------------------------
(* tool_adapter.py: ToolAdapter.tool_to_command, called on its own *)

\* the tool names tool_to_command is applied to: two of tool_cmd_map (one
\* mapped to another name), one outside the map with the prefix, and one
\* with harness_ a second time inside the name
CommandToolNames ==
    { <<PREFIX, "sandbox">>, <<PREFIX, "shell">>, <<PREFIX, "tree">>,
      <<PREFIX, "my_", PREFIX, "tool">> }

\* the items the argument mappings are made of: true and false booleans,
\* the action, a string, the integer 0 and None
ArgumentItems ==
    << <<"force", PyBool(TRUE)>>, <<"action", PyStr("list")>>,
       <<"dry", PyBool(FALSE)>>, <<"path", PyStr("a.txt")>>,
       <<"n", PyInt(0)>>, <<"opt", <<"none">> >> >>

\* the items at the positions of S, in the order of ArgumentItems
RECURSIVE ItemsAt(_, _)
ItemsAt(S, i) ==
    IF i > Len(ArgumentItems) THEN <<>>
    ELSE (IF i \in S THEN <<ArgumentItems[i]>> ELSE <<>>) \o ItemsAt(S, i + 1)

ArgumentMappings == { ItemsAt(S, 1) : S \in SUBSET (1..Len(ArgumentItems)) }

InitToolCommand ==
    /\ Constructed
    /\ probe \in { Pending("tool_to_command",
                            [tool_name |-> n, arguments |-> a]) :
                        n \in CommandToolNames, a \in ArgumentMappings }

ApplyToolToCommand ==
    Apply("tool_to_command",
          tool_to_command(probe.input.tool_name, probe.input.arguments))

NextToolCommand == ApplyToolToCommand

SpecToolCommand == InitToolCommand /\ [][NextToolCommand]_vars

\* the remaining arguments the flags are to hold: every item but the
\* action that is boolean true, or neither a boolean nor None
IsFlagItem(kv) ==
    /\ kv[1] # "action"
    /\ kv[2] = PyBool(TRUE) \/ kv[2][1] \notin {"bool", "none"}

(* C22: tool_to_command(name, arguments) returns a valid ParsedCommand     *)
(* whose command is the mapped name, or the name with the harness_ prefix  *)
(* stripped when the map does not have it, whose subcommand is the value   *)
(* of action (None when absent), whose args are empty and whose flags are  *)
(* exactly the remaining arguments that are boolean true, or neither       *)
(* boolean nor None; ('harness_sandbox', {action: list}) gives sandbox,    *)
(* list, no flags and no args.                                             *)
C22_ToolToCommand ==
    Applied("tool_to_command") =>
        LET name == probe.input.tool_name
            arguments == probe.input.arguments
            out == probe.output
        IN  /\ out.valid
            /\ out.command = IF name = <<PREFIX, "shell">> THEN <<"cmd">>
                              ELSE StripPrefix(name)
            /\ out.subcommand = IF IsKey(arguments, "action")
                                 THEN <<"list">> ELSE None
            /\ out.args = <<>>
            /\ out.flags = SelectSeq(arguments, IsFlagItem)
            /\ (name = <<PREFIX, "sandbox">>
                    /\ arguments = << <<"action", PyStr("list")>> >>)
                   => /\ out.command = <<"sandbox">>
                      /\ out.subcommand = <<"list">>
                      /\ out.flags = <<>>

-----------------------------------------------------------------------------
(* command_parser.py: MultiLineCommandBuilder *)

\* most add_line calls made on one builder
MaxFed == 3

\* 1-based position of the first occurrence of sub in s, 0 when none
RECURSIVE FindFrom(_, _, _)
FindFrom(s, sub, i) ==
    IF i + Len(sub) - 1 > Len(s) THEN 0
    ELSE IF SubSeq(s, i, i + Len(sub) - 1) = sub THEN i
    ELSE FindFrom(s, sub, i + 1)
Find(s, sub) == FindFrom(s, sub, 1)

\* s.split(sep) for a separator of any length
RECURSIVE split_str(_, _)
split_str(s, sep) ==
    LET i == Find(s, sep) IN
    IF i = 0 THEN <<s>>
    ELSE <<SubSeq(s, 1, i - 1)>> \o split_str(From(s, i + Len(sep)), sep)

\* s.strip(chars)
RECURSIVE strip_chars(_, _)
strip_chars(s, chars) ==
    IF Len(s) > 0 /\ Index(chars, Char(s, 1)) # 0
    THEN strip_chars(From(s, 2), chars)
    ELSE IF Len(s) > 0 /\ Index(chars, Char(s, Len(s))) # 0
    THEN strip_chars(SubSeq(s, 1, Len(s) - 1), chars)
    ELSE s

\* MultiLineCommandBuilder.__init__
NewBuilder ==
    [buffer |-> <<>>, in_command |-> FALSE, current_command |-> "",
     delimiter |-> "EOF"]

\* an Optional[str]: None is the empty sequence, a string s is <<s>>
Nothing == <<>>
Some(s) == <<s>>

\* (mutant) inside a heredoc a /-line is handled as outside of it
add_line_SlashEnds(self, line) ==
    IF ~self.in_command \/ startswith(strip(line), "/")
    THEN IF startswith(strip(line), "/")
         THEN IF Find(line, "<<") # 0
              THEN LET parts == split_str(line, "<<") IN
                   [self |-> [self EXCEPT
                                !.current_command = parts[1],
                                !.delimiter = strip_chars(strip(parts[2]), "'\""),
                                !.in_command = TRUE,
                                !.buffer = <<>>],
                    result |-> Nothing]
              ELSE [self |-> self, result |-> Some(strip(line))]
         ELSE [self |-> self, result |-> Nothing]
    ELSE IF strip(line) = self.delimiter
         THEN [self |-> [self EXCEPT !.in_command = FALSE, !.buffer = <<>>],
               result |-> Some(self.current_command \o " --content '"
                               \o join("\n", self.buffer) \o "'")]
         ELSE [self |-> [self EXCEPT !.buffer = Append(self.buffer, line)],
               result |-> Nothing]

\* MultiLineCommandBuilder.add_line: the builder afterwards and what
\* is returned
add_line(self, line) ==
    IF ~self.in_command
    THEN IF startswith(strip(line), "/")
         THEN IF Find(line, "<<") # 0
              THEN LET parts == split_str(line, "<<") IN
                   [self |-> [self EXCEPT
                                !.current_command = parts[1],
                                !.delimiter = strip_chars(strip(parts[2]), "'\""),
                                !.in_command = TRUE,
                                !.buffer = <<>>],
                    result |-> Nothing]
              ELSE [self |-> self, result |-> Some(strip(line))]
         ELSE [self |-> self, result |-> Nothing]
    ELSE IF strip(line) = self.delimiter
         THEN [self |-> [self EXCEPT !.in_command = FALSE, !.buffer = <<>>],
               result |-> Some(self.current_command \o " --content '"
                               \o join("\n", self.buffer) \o "'")]
         ELSE [self |-> [self EXCEPT !.buffer = Append(self.buffer, line)],
               result |-> Nothing]

\* (mutant) reset empties the buffer and leaves the mode as it is
reset_KeepMode(self) ==
    [self EXCEPT !.buffer = <<>>, !.current_command = ""]

\* MultiLineCommandBuilder.reset
reset(self) ==
    [self EXCEPT !.buffer = <<>>, !.in_command = FALSE,
                 !.current_command = ""]

\* the lines given to add_line: heredoc starts with a plain, a quoted, a
\* missing and a doubled delimiter, a single-line command, text, and
\* lines that are or are not delimiters
BuilderLines ==
    { "/w f <<EOF", " /w <<'END' ", "/w f <<", "/w <<A<<B", "/ls -a",
      "text", "EOF", " END", "", "A" }

\* one builder, the lines it was given since it was made or reset, and
\* what add_line returned for each
InitBuilder ==
    /\ Constructed
    /\ probe = [fn |-> "add_line", done |-> FALSE, builder |-> NewBuilder,
                fed |-> <<>>, returned |-> <<>>]

AddLine ==
    /\ probe.fn = "add_line"
    /\ Len(probe.fed) < MaxFed
    /\ \E line \in BuilderLines :
          LET after == add_line(probe.builder, line) IN
          probe' = [probe EXCEPT !.done = TRUE,
                                 !.builder = after.self,
                                 !.fed = Append(@, line),
                                 !.returned = Append(@, after.result)]
    /\ UNCHANGED <<handlers, tool_handlers, schema_handlers, middlewares, history,
                   max_history, clock, ticks, calls, n_constructed, appended,
                   n_registrations, last_query>>

Reset ==
    /\ probe.fn = "add_line"
    /\ probe.done
    /\ probe.builder # reset(probe.builder)
    /\ probe' = [probe EXCEPT !.done = FALSE,
                              !.builder = reset(probe.builder),
                              !.fed = <<>>, !.returned = <<>>]
    /\ UNCHANGED <<handlers, tool_handlers, schema_handlers, middlewares, history,
                   max_history, clock, ticks, calls, n_constructed, appended,
                   n_registrations, last_query>>

NextBuilder ==
    \/ AddLine
    \/ Reset

SpecBuilder == InitBuilder /\ [][NextBuilder]_vars

\* the line starts a command / carries a heredoc marker
StartsCommand(line) == startswith(strip(line), "/")
HasMarker(line) == Find(line, "<<") # 0

\* the text of a line before and after its first marker
BeforeMarker(line) == SubSeq(line, 1, Find(line, "<<") - 1)
AfterMarker(line) == From(line, Find(line, "<<") + 2)

\* the line has one marker, and a delimiter after it
NamesDelimiter(line) ==
    /\ Find(AfterMarker(line), "<<") = 0
    /\ strip_chars(strip(AfterMarker(line)), "'\"") # ""

\* what the heredoc rule gives for the lines, from a builder that is idle
\* (open empty) or inside a heredoc (open holds its prefix, delimiter and
\* accumulated lines): the value returned for each line, the heredoc left
\* open, and whether every heredoc begun named its delimiter
RECURSIVE Heredoc(_, _)
Heredoc(lines, open) ==
    IF lines = <<>>
    THEN [returned |-> <<>>, open |-> open, named |-> TRUE]
    ELSE LET line == Head(lines)
             begins == open = <<>> /\ StartsCommand(line) /\ HasMarker(line)
             step ==
               IF open = <<>>
               THEN IF begins
                    THEN [r |-> Nothing,
                          o |-> <<[prefix |-> BeforeMarker(line),
                                   delim |-> strip_chars(
                                       strip(AfterMarker(line)), "'\""),
                                   acc |-> <<>>]>>]
                    ELSE IF StartsCommand(line)
                    THEN [r |-> Some(strip(line)), o |-> <<>>]
                    ELSE [r |-> Nothing, o |-> <<>>]
               ELSE IF strip(line) = open[1].delim
                    THEN [r |-> Some(open[1].prefix \o " --content '"
                                     \o join("\n", open[1].acc) \o "'"),
                          o |-> <<>>]
                    ELSE [r |-> Nothing,
                          o |-> <<[open[1] EXCEPT !.acc = Append(@, line)]>>]
             rest == Heredoc(Tail(lines), step.o)
         IN  [returned |-> <<step.r>> \o rest.returned,
              open |-> rest.open,
              named |-> rest.named /\ (begins => NamesDelimiter(line))]

C23_WitnessJoined ==
    /\ probe.fn = "add_line"
    /\ Len(probe.fed) = 3
    /\ probe.builder.in_command
    /\ probe.builder.buffer = <<"/w f <<EOF", "text">>

\* outside a heredoc a single-line command is returned at once
C23_WitnessSingle ==
    /\ probe.fn = "add_line"
    /\ probe.fed = <<"text", "/ls -a">>
    /\ probe.returned = <<Nothing, Some("/ls -a")>>

\* the delimiter a start line is to have: EOF when nothing follows the
\* marker, otherwise what follows it without surrounding quotes
DelimiterOf(line) ==
    IF strip(AfterMarker(line)) = "" THEN "EOF"
    ELSE strip_chars(strip(AfterMarker(line)), "'\"")

(* C24: a heredoc start line with nothing after the << marker uses the     *)
(* delimiter EOF, so that the content block ends at the next line equal to *)
(* EOF and at no other line; a delimiter written inside quotes is used     *)
(* without them.                                                           *)
C24_DefaultDelimiter ==
    (/\ probe.fn = "add_line"
     /\ Len(probe.fed) > 0
     /\ StartsCommand(probe.fed[1])
     /\ HasMarker(probe.fed[1])
     /\ \/ strip(AfterMarker(probe.fed[1])) = ""
        \/ Index("'\"", Char(strip(AfterMarker(probe.fed[1])), 1)) # 0)
    => \A j \in 2..Len(probe.fed) :
          (\A k \in 2..(j - 1) :
              strip(probe.fed[k]) # DelimiterOf(probe.fed[1]))
          => ((probe.returned[j] # Nothing)
                 <=> (strip(probe.fed[j]) = DelimiterOf(probe.fed[1])))

-----------------------------------------------------------------------------
(* The responses of the bus: success, error and metadata *)

(* C25: every ExecutionResponse execute_text or execute_tool returns has   *)
(* success = false if and only if its error is not None.                   *)
C25_SuccessIffNoError ==
    \A ci \in Answered :
        (ResponseOf(ci).success = FALSE) <=> (ResponseOf(ci).error # None)

\* a handler raised an error with an empty message: the response is a
\* failure whose error is the empty string, not None
C25_Witness ==
    \E ci \in Answered :
        /\ ServedOf(ci).via = "text"
        /\ ServedOf(ci).outcome.raises
        /\ ResponseOf(ci).success = FALSE
        /\ ResponseOf(ci).error = <<"">>

\* a success, whose error is None
C25_WitnessSuccess ==
    \E ci \in Answered :
        /\ ServedOf(ci).via = "tool"
        /\ ResponseOf(ci).success
        /\ ResponseOf(ci).error = None

(* C26: every ExecutionResponse the bus makes, success or failure, carries *)
(* in its metadata the echoed command (text path) or the tool name (tool   *)
(* path), and names the handler that served it whenever one served it.     *)
C26_Metadata ==
    \A ci \in Answered :
        ServedOf(ci).via # "mw_short" =>
            /\ calls[ci[1]].kind = "text" =>
                   ResponseOf(ci).metadata.command =
                       ServedOf(ci).request.parsed_command.raw
            /\ calls[ci[1]].kind = "tool" =>
                   ResponseOf(ci).metadata.tool_name = calls[ci[1]].tool_name
            /\ ServedOf(ci).inv # <<>> =>
                   ResponseOf(ci).metadata.handler = ServedOf(ci).inv[1][1]

-----------------------------------------------------------------------------
(* Specification of the request ids: text commands and tool calls on a bus *)
(* with no handler and no middleware, under a clock of which two readings  *)
(* in a row can be equal (time.time_ns() has the resolution of the system  *)
(* clock)                                                                  *)

InitClock ==
    /\ handlers = EmptyDict
    /\ tool_handlers = EmptyDict
    /\ schema_handlers = NoSchemaHandlers
    /\ middlewares = << >>
    /\ history = << >>
    /\ max_history = DEFAULT_MAX_HISTORY
    /\ clock = 0
    /\ ticks = {0, 1}
    /\ calls = [c \in {"c1"} |-> IdleCall]
    /\ n_constructed = 0
    /\ appended = {}
    /\ n_registrations = 0
    /\ last_query = NoQuery
    /\ probe = NoProbe

NextClock ==
    \/ \E c \in DOMAIN calls, text \in Texts, agent_id \in Callers :
           execute_text(c, text, agent_id)
    \/ \E c \in DOMAIN calls, tc \in ToolCalls, agent_id \in Callers :
           execute_tool(c, tc[1], tc[2], agent_id)
    \/ \E c \in DOMAIN calls : CoreStep(c)

SpecClock == InitClock /\ [][NextClock]_vars

\* f"req-{time.time_ns()}": the request_id as the request carries it
RequestIdText(request) == <<"req-", request.request_id>>

(* C27: no two ExecutionRequests a bus constructs carry the same           *)
(* request_id, within one execute_text call or across calls, and a request *)
(* constructed later never has a smaller id than one constructed earlier.  *)
C27_RequestIds ==
    \A i, j \in DOMAIN history :
        i < j => /\ RequestIdText(history[i]) # RequestIdText(history[j])
                 /\ history[i].request_id <= history[j].request_id

-----------------------------------------------------------------------------
(* Specification of two buses: this bus registers nothing and serves text  *)
(* commands and tool calls, while another UnifiedCommandBus of the same    *)
(* process registers handlers of its own                                   *)

\* the CommandHandler objects given to the other bus
OtherHandlers == { <<"h2">> }

\* register_handler(command, handler) of the other bus: its handlers and
\* its adapter's handlers are its own, and this bus reads neither; the
\* ToolSchema its adapter binds the handler to is the catalog's
register_handler_other(command, handler) ==
    /\ Quiet
    /\ schema_handlers[ToolNameOf(command)] = None
    /\ schema_handlers' = BindSchema(schema_handlers, ToolNameOf(command),
                                     handler)
    /\ UNCHANGED <<handlers, tool_handlers, middlewares, history,
                   max_history, clock, ticks, probe, calls, n_constructed,
                   appended, n_registrations, last_query>>

NextTwoBuses ==
    \/ \E handler \in OtherHandlers :
           register_handler_other(<<"read">>, handler)
    \/ \E c \in DOMAIN calls, text \in RouteTexts, agent_id \in Callers :
           execute_text(c, text, agent_id)
    \/ \E c \in DOMAIN calls, tool_name \in RouteTools, agent_id \in Callers :
           execute_tool(c, tool_name, <<>>, agent_id)
    \/ \E c \in DOMAIN calls : CoreStep(c)
    \/ \E c \in DOMAIN calls : HandlerReturn(c)

SpecTwoBuses == Init /\ [][NextTwoBuses]_vars

(* C28: two buses of one process never interfere: what the other bus       *)
(* registers never changes the response this bus gives to a text command   *)
(* or a tool call, nor which handler this bus invokes. This bus has no     *)
(* handler, so it invokes none, and answers every command and every tool   *)
(* of the catalog as a bus alone in its process does.                      *)
C28_NoInterference ==
    \A ci \in Answered :
        /\ ServedOf(ci).inv = <<>>
        /\ ResponseOf(ci).success = FALSE
        /\ ResponseOf(ci).error =
              IF calls[ci[1]].kind = "tool"
              THEN <<"No handler for tool: ">> \o calls[ci[1]].tool_name
              ELSE <<"Unknown command: ">>
                       \o ServedOf(ci).request.parsed_command.command

(* C29: every time a registered handler's execute is invoked, from the     *)
(* text path, the routed tool path or the tool handler register_handler    *)
(* synthesizes, the context it is given holds the requesting agent's id    *)
(* and the source, 'text' for a text command and 'tool' for a tool call.   *)
C29_HandlerContext ==
    \A ci \in Answered :
        \A k \in DOMAIN ServedOf(ci).inv :
            /\ ServedOf(ci).inv[k][3].agent_id = calls[ci[1]].agent_id
            /\ ServedOf(ci).inv[k][3].source = calls[ci[1]].kind

-----------------------------------------------------------------------------
(* Specification of concurrent calls: after setup, one call of each of two *)
(* agents, interleaved at their awaits                                     *)

\* the texts of the concurrent calls: one command, and two
ConcurrentTexts == { "/read", "/read\n/help" }

\* the agent that makes the call of each slot
AgentOf == [c \in {"c1", "c2"} |-> IF c = "c1" THEN <<"a1">> ELSE <<"a2">>]

InitConcurrent ==
    /\ handlers = EmptyDict
    /\ tool_handlers = EmptyDict
    /\ schema_handlers = NoSchemaHandlers
    /\ middlewares = << >>
    /\ history = << >>
    /\ max_history \in {1, MaxHistoryCap}
    /\ clock = 0
    /\ ticks = {1}
    /\ calls = [c \in {"c1", "c2"} |-> IdleCall]
    /\ n_constructed = 0
    /\ appended = {}
    /\ n_registrations = 0
    /\ last_query = NoQuery
    /\ probe = NoProbe

NextConcurrent ==
    \/ \E handler \in Handlers :
           /\ Setup
           /\ n_registrations < MaxRegistrations
           /\ register_handler(<<"read">>, handler)
    \/ \E middleware \in MiddlewareKinds :
           /\ Setup
           /\ Len(middlewares) < MaxMiddlewares
           /\ add_middleware(middleware)
    \/ \E c \in DOMAIN calls, text \in ConcurrentTexts :
           /\ calls[c].pc = "idle"
           /\ StartText(c, text, AgentOf[c])
    \/ \E c \in DOMAIN calls :
           /\ calls[c].pc = "idle"
           /\ StartTool(c, <<PREFIX, "read">>, <<>>, AgentOf[c])
    \/ \E c \in DOMAIN calls : MiddlewareStep(c)
    \/ \E c \in DOMAIN calls : CoreStep(c)
    \/ \E c \in DOMAIN calls : HandlerReturn(c)

SpecConcurrent == InitConcurrent /\ [][NextConcurrent]_vars

\* the response answers a request of its own call, with what the handler
\* awaited for that request did
OwnResponse(ci) ==
    LET sv == ServedOf(ci)
        r == ResponseOf(ci)
        rec == calls[ci[1]]
    IN  /\ r.request_id = sv.request.request_id
        /\ sv.request.agent_id = rec.agent_id
        /\ rec.kind = "text" => sv.request.parsed_command = rec.parsed[sv.idx]
        /\ rec.kind = "tool" => sv.request.tool_name = rec.tool_name
        /\ sv.via \in {"text", "tool"} =>
               IF sv.outcome.raises
               THEN ~r.success /\ r.error = sv.outcome.value
               ELSE r.success /\ r.result = sv.outcome.value

(* C30: with the registry and the middleware list fixed after setup, calls *)
(* of different agents interleaved at their awaits stay correct: every     *)
(* response carries the id of a request of its own call and the result of  *)
(* its own handler, no two responses carry the same id, the history holds  *)
(* each request once, in the order in which the dispatches began, and it   *)
(* never exceeds max_history (it holds the most recent requests).          *)
C30_Concurrent ==
    /\ \A ci \in Answered : OwnResponse(ci)
    /\ \A ci, cj \in Answered :
           ci # cj => ResponseOf(ci).request_id # ResponseOf(cj).request_id
    /\ Len(history) <= max_history
    /\ Len(history) = Min(n_constructed, max_history)
    /\ \A i \in DOMAIN history :
           history[i].seq = n_constructed - Len(history) + i

\* the dispatch of the second agent's request began between the two
\* requests of the first agent's call, and both calls returned
C30_Witness ==
    /\ calls["c1"].pc = "done"
    /\ calls["c2"].pc = "done"
    /\ Len(calls["c1"].responses) = 2
    /\ Len(calls["c2"].responses) = 1
    /\ calls["c1"].served[1].request.seq = 1
    /\ calls["c2"].served[1].request.seq = 2
    /\ calls["c1"].served[2].request.seq = 3
    /\ calls["c1"].served[1].via = "text"
    /\ calls["c2"].served[1].via = "tool"

-----------------------------------------------------------------------------
(* Specification of reset: a builder is given lines, reset, and given      *)
(* lines again                                                             *)

\* most add_line calls made before the reset
MaxBefore == 2

\* the lines given before and after the reset: heredoc starts with two
\* delimiters, content, a terminator and a single-line command
ResetLines == { "/w f <<EOF", " /w <<'END' ", "text", "EOF", "/ls -a" }

\* fed and returned are the lines given since the reset and what add_line
\* returned for them; at holds the builder as reset found it
InitReset ==
    /\ Constructed
    /\ probe = [fn |-> "reset", done |-> FALSE, builder |-> NewBuilder,
                before |-> 0, at |-> <<>>, fed |-> <<>>, returned |-> <<>>]

AddLineBefore ==
    /\ probe.fn = "reset"
    /\ ~probe.done
    /\ probe.before < MaxBefore
    /\ \E line \in ResetLines :
          probe' = [probe EXCEPT !.builder = add_line(@, line).self,
                                 !.before = @ + 1]
    /\ UNCHANGED <<handlers, tool_handlers, schema_handlers, middlewares,
                   history, max_history, clock, ticks, calls, n_constructed,
                   appended, n_registrations, last_query>>

ResetBuilder ==
    /\ probe.fn = "reset"
    /\ ~probe.done
    /\ probe' = [probe EXCEPT !.done = TRUE, !.at = <<probe.builder>>,
                              !.builder = reset(probe.builder)]
    /\ UNCHANGED <<handlers, tool_handlers, schema_handlers, middlewares,
                   history, max_history, clock, ticks, calls, n_constructed,
                   appended, n_registrations, last_query>>

AddLineAfter ==
    /\ probe.fn = "reset"
    /\ probe.done
    /\ Len(probe.fed) < MaxFed
    /\ \E line \in ResetLines :
          LET after == add_line(probe.builder, line) IN
          probe' = [probe EXCEPT !.builder = after.self,
                                 !.fed = Append(@, line),
                                 !.returned = Append(@, after.result)]
    /\ UNCHANGED <<handlers, tool_handlers, schema_handlers, middlewares,
                   history, max_history, clock, ticks, calls, n_constructed,
                   appended, n_registrations, last_query>>

NextReset ==
    \/ AddLineBefore
    \/ ResetBuilder
    \/ AddLineAfter

SpecReset == InitReset /\ [][NextReset]_vars

\* what add_line returns for each of the lines, from the builder self on
RECURSIVE Outputs(_, _)
Outputs(self, lines) ==
    IF lines = <<>> THEN <<>>
    ELSE LET after == add_line(self, Head(lines))
         IN  <<after.result>> \o Outputs(after.self, Tail(lines))

(* C39: after reset(), a builder that was idle or inside a heredoc, with   *)
(* any delimiter and any buffered lines, returns for every following       *)
(* sequence of lines what a freshly constructed builder returns for it.    *)
C39_ResetIsFresh ==
    (probe.fn = "reset" /\ probe.done) =>
        probe.returned = Outputs(NewBuilder, probe.fed)

\* a builder reset inside a heredoc with the delimiter END and a buffered
\* line, which then serves a heredoc that ends at EOF
C39_Witness ==
    /\ probe.fn = "reset"
    /\ probe.done
    /\ probe.at # <<>>
    /\ probe.at[1].in_command
    /\ probe.at[1].delimiter = "END"
    /\ probe.at[1].buffer = <<"text">>
    /\ probe.builder.delimiter = "EOF"
    /\ probe.fed = <<"/w f <<EOF", "text", "EOF">>
    /\ probe.returned = <<Nothing, Nothing, Some("/w f  --content 'text'")>>

\* a reset builder keeps the delimiter of the heredoc it was reset in
C39_WitnessStale ==
    /\ probe.fn = "reset"
    /\ probe.done
    /\ ~probe.builder.in_command
    /\ probe.builder.delimiter = "END"
    /\ probe.fed = <<"EOF", "/ls -a">>

-----------------------------------------------------------------------------
(* Specification of heredoc commands: a start line, a content block and    *)
(* the terminator are given to a new builder, and the command string it    *)
(* returns to the parser                                                   *)

\* most lines of a content block
MaxContent == 2

\* the start lines, for two catalog commands
HeredocStarts == { "/write f <<EOF", "/edit f <<EOF" }

\* the lines of the content blocks: plain text, text with a blank, with an
\* apostrophe, lines that look like a flag, a command and a number, and
\* the empty line
ContentLines == { "text", "a b", "it's", "-x", "/ls", "42", "" }

ContentBlocks ==
    UNION { [1..n -> ContentLines] : n \in 0..MaxContent }

InitHeredoc ==
    /\ Constructed
    /\ probe \in { Pending("heredoc", [start |-> st, content |-> b]) :
                       st \in HeredocStarts, b \in ContentBlocks }

\* add_line for the start line, every content line and the terminator,
\* then parse of what the last add_line returned
ApplyHeredoc ==
    LET lines == <<probe.input.start>> \o probe.input.content \o <<"EOF">>
        returned == Outputs(NewBuilder, lines)
        text == returned[Len(returned)][1]
    IN  Apply("heredoc", [returned |-> returned, text |-> text,
                          parsed |-> parse_call(text)])

NextHeredoc == ApplyHeredoc

SpecHeredoc == InitHeredoc /\ [][NextHeredoc]_vars

(* C40: for every heredoc content block, the command string the builder    *)
(* synthesizes, given to parse, yields a valid ParsedCommand with the      *)
(* original command name whose content flag is the accumulated lines       *)
(* joined by newline; no content line is parsed as a command, a flag or a  *)
(* positional argument of its own.                                         *)
C40_HeredocParses ==
    Applied("heredoc") =>
        LET parsed == probe.output.parsed IN
        /\ ~parsed.raised
        /\ parsed.value.valid
        /\ parsed.value.command =
              <<SubSeq(probe.input.start, 2, Find(probe.input.start, " ") - 1)>>
        /\ parsed.value.args = <<"f">>
        /\ parsed.value.flags =
              << <<"content", PyStr(join("\n", probe.input.content))>> >>

-----------------------------------------------------------------------------
(* The parser: what becomes of each token *)

\* the tokens after the command and the subcommand
FlagAndArgTokens ==
    IF NamesSubcommand THEN Tail(RestOf(probe.input)) ELSE RestOf(probe.input)

\* the shapes of a token
IsLongFlag(t) == startswith(t, "--")
IsAssignment(t) == IsLongFlag(t) /\ Index(From(t, 3), "=") # 0
IsShortFlag(t) == ~IsLongFlag(t) /\ startswith(t, "-") /\ Len(t) = 2

\* the class of every token from position i on: "assign" for --name=value,
\* "flag" for a flag that takes the next token, which is its "value",
\* "switch" for a flag that is true, "arg" for a positional argument
RECURSIVE TokenClasses(_, _)
TokenClasses(tokens, i) ==
    IF i > Len(tokens) THEN <<>>
    ELSE LET t == tokens[i]
             next_is_value ==
                 i < Len(tokens) /\ ~startswith(tokens[i + 1], "-")
         IN  IF IsAssignment(t)
             THEN <<"assign">> \o TokenClasses(tokens, i + 1)
             ELSE IF IsLongFlag(t) \/ IsShortFlag(t)
             THEN IF next_is_value
                  THEN <<"flag", "value">> \o TokenClasses(tokens, i + 2)
                  ELSE <<"switch">> \o TokenClasses(tokens, i + 1)
             ELSE <<"arg">> \o TokenClasses(tokens, i + 1)

\* the name and the value of the flag token at position i
FlagNameAt(tokens, i) ==
    LET t == tokens[i] IN
    IF IsAssignment(t) THEN SubSeq(t, 3, 2 + Index(From(t, 3), "=") - 1)
    ELSE IF IsLongFlag(t) THEN From(t, 3)
    ELSE SubSeq(t, 2, 2)
FlagValueAt(tokens, classes, i) ==
    CASE classes[i] = "assign" ->
             _parse_flag_value(From(tokens[i],
                                    3 + Index(From(tokens[i], 3), "=")))
      [] classes[i] = "flag" -> _parse_flag_value(tokens[i + 1])
      [] classes[i] = "switch" -> PyBool(TRUE)

\* the tokens of one class, in order
RECURSIVE TokensOf(_, _, _, _)
TokensOf(tokens, classes, class, i) ==
    IF i > Len(tokens) THEN <<>>
    ELSE (IF classes[i] = class THEN <<tokens[i]>> ELSE <<>>)
             \o TokensOf(tokens, classes, class, i + 1)

(* C34: parse classifies every token after the command and the subcommand  *)
(* once: --name=value sets name to the coerced value; --name or a          *)
(* two-character -x takes the next token as its value when that does not   *)
(* start with '-' and is true otherwise; every other token is a positional *)
(* argument, in order; a token taken as a value is not in args; of a flag  *)
(* that occurs twice the last occurrence wins.                             *)
C34_TokenClasses ==
    (Applied("parse") /\ ~probe.output.raised /\ probe.output.value.valid) =>
        LET out == probe.output.value
            tokens == FlagAndArgTokens
            classes == TokenClasses(tokens, 1)
            flag_at == { i \in 1..Len(tokens) :
                             classes[i] \in {"assign", "flag", "switch"} }
        IN  /\ Len(classes) = Len(tokens)
            /\ out.args = TokensOf(tokens, classes, "arg", 1)
            /\ { out.flags[k][1] : k \in 1..Len(out.flags) }
                   = { FlagNameAt(tokens, i) : i \in flag_at }
            /\ Cardinality({ out.flags[k][1] : k \in 1..Len(out.flags) })
                   = Len(out.flags)
            /\ \A i \in flag_at :
                   (\A j \in flag_at :
                        j > i => FlagNameAt(tokens, j) # FlagNameAt(tokens, i))
                   => \E k \in 1..Len(out.flags) :
                          /\ out.flags[k][1] = FlagNameAt(tokens, i)
                          /\ out.flags[k][2] = FlagValueAt(tokens, classes, i)

\* a flag given twice, yes and then NO: it is false; the tokens yes and NO
\* are not arguments
C34_Witness ==
    /\ Applied("parse")
    /\ probe.input = "/search q --n 1 --r 1.5 -b yes -b NO"
    /\ probe.output.value.args = <<"q">>
    /\ \E k \in 1..Len(probe.output.value.flags) :
           probe.output.value.flags[k] = <<"b", PyBool(FALSE)>>

\* an assignment whose value holds '=', a switch before a flag, and a
\* token of three characters that starts with '-' and is an argument
C34_WitnessShapes ==
    /\ Applied("parse")
    /\ probe.input = "/write f --mode=a=b -n 5 -x"
    /\ TokenClasses(FlagAndArgTokens, 1)
           = <<"arg", "assign", "flag", "value", "switch">>
    /\ probe.output.value.flags
           = << <<"mode", PyStr("a=b")>>, <<"n", PyInt(5)>>,
                <<"x", PyBool(TRUE)>> >>

-----------------------------------------------------------------------------
(* The parser: which texts are valid commands *)

\* the text after the '/', tokenized
TokensOfInput == shlex_split(From(strip(probe.input), 2))

\* the four conditions of a valid command
StartsWithSlash == startswith(strip(probe.input), "/")
Tokenizes == ~TokensOfInput.raised
HasToken == Len(TokensOfInput.tokens) >= 1
InCatalog == <<lower(TokensOfInput.tokens[1])>> \in COMMAND_DEFINITIONS

(* C35: parse marks its result valid exactly when the trimmed text starts  *)
(* with '/', tokenizes under shell quoting, has at least one token, and    *)
(* the first token in lower case is a command of the catalog; for an       *)
(* unknown command the attempted name is reported in the command field.    *)
C35_ValidIff ==
    Applied("parse") =>
        /\ ~probe.output.raised
        /\ probe.output.value.valid
               <=> (StartsWithSlash /\ Tokenizes /\ HasToken /\ InCatalog)
        /\ (StartsWithSlash /\ Tokenizes /\ HasToken /\ ~InCatalog)
               => /\ probe.output.value.command
                         = <<lower(TokensOfInput.tokens[1])>>
                  /\ probe.output.value.error
                         = <<"Unknown command: ",
                             lower(TokensOfInput.tokens[1])>>

\* an unknown command is not valid and its name is reported
C35_Witness ==
    /\ Applied("parse")
    /\ probe.input = "/frobnicate x"
    /\ ~probe.output.value.valid
    /\ probe.output.value.command = <<"frobnicate">>

\* a command without its required argument, a subcommand that does not
\* exist and a flag that is not declared are valid
C35_WitnessLenient ==
    /\ Applied("parse")
    /\ probe.input \in { "/READ", "/sandbox nosuch", "/read -ab" }
    /\ probe.output.value.valid

\* a quotation that is not closed is not valid
C35_WitnessQuote ==
    /\ Applied("parse")
    /\ probe.input = "/read \"abc"
    /\ ~probe.output.value.valid

-----------------------------------------------------------------------------
(* tool_adapter.py: parse_tool_call and get_all_tools *)

\* structured values of a payload: a dict is a function of its keys
PyNone == <<"none">>
PyDict(d) == <<"dict", d>>
PyList(items) == <<"list", items>>

\* the character at position i, "" past the end
CharAt(s, i) == IF i >= 1 /\ i <= Len(s) THEN Char(s, i) ELSE ""

JsonOk(value, end) == [ok |-> TRUE, value |-> value, end |-> end]
JsonFail(at) == [ok |-> FALSE, value |-> PyNone, end |-> at]

\* the whitespace json skips between tokens
RECURSIVE SkipWs(_, _)
SkipWs(s, i) ==
    IF CharAt(s, i) # "" /\ Index(" \t\n\r", CharAt(s, i)) # 0
    THEN SkipWs(s, i + 1)
    ELSE i

\* the end of the digits that start at i
RECURSIVE DigitsEnd(_, _)
DigitsEnd(s, i) ==
    IF CharAt(s, i) # "" /\ IsDigit(CharAt(s, i)) THEN DigitsEnd(s, i + 1) ELSE i

\* the characters the escapes \" \\ \/ \f \n \r \t stand for (the backspace of
\* \b and the code points of \u are not characters of the strings here; no
\* text given to json_loads holds them)
Unescaped(e) ==
    CASE e = "\"" -> "\""
      [] e = "\\" -> "\\"
      [] e = "/" -> "/"
      [] e = "n" -> "\n"
      [] e = "r" -> "\r"
      [] e = "t" -> "\t"
      [] e = "f" -> "\f"

\* a JSON string from inside its opening quotation mark
RECURSIVE JsonChars(_, _, _)
JsonChars(s, i, acc) ==
    LET c == CharAt(s, i) IN
    IF c = "" THEN JsonFail(i)
    ELSE IF c = "\"" THEN JsonOk(acc, i + 1)
    ELSE IF c = "\\"
    THEN IF CharAt(s, i + 1) # "" /\ Index("\"\\/fnrt", CharAt(s, i + 1)) # 0
         THEN JsonChars(s, i + 2, acc \o Unescaped(CharAt(s, i + 1)))
         ELSE JsonFail(i)
    ELSE IF Index("\n\r\t", c) # 0 THEN JsonFail(i)
    ELSE JsonChars(s, i + 1, acc \o c)

\* a JSON number that starts at i
JsonNumber(s, i) ==
    LET first == IF CharAt(s, i) = "-" THEN i + 1 ELSE i
        int_end == IF CharAt(s, first) = "0" THEN first + 1
                   ELSE DigitsEnd(s, first)
        frac_end == IF CharAt(s, int_end) = "."
                       /\ DigitsEnd(s, int_end + 1) > int_end + 1
                    THEN DigitsEnd(s, int_end + 1)
                    ELSE int_end
        exp_from == IF CharAt(s, frac_end) \in {"e", "E"}
                    THEN IF CharAt(s, frac_end + 1) \in {"+", "-"}
                         THEN frac_end + 2
                         ELSE frac_end + 1
                    ELSE frac_end
        exp_end == IF exp_from > frac_end /\ DigitsEnd(s, exp_from) > exp_from
                   THEN DigitsEnd(s, exp_from)
                   ELSE frac_end
    IN  IF int_end = first THEN JsonFail(i)
        ELSE IF exp_end = int_end
        THEN JsonOk(PyInt(IntOf(SubSeq(s, i, int_end - 1))), int_end)
        ELSE JsonOk(PyFloat(SubSeq(s, i, exp_end - 1)), exp_end)

\* the words of JSON and the values they stand for
JsonWords ==
    << <<"null", PyNone>>, <<"true", PyBool(TRUE)>>,
       <<"false", PyBool(FALSE)>>, <<"NaN", PyFloat("nan")>>,
       <<"Infinity", PyFloat("inf")>>, <<"-Infinity", PyFloat("-inf")>> >>

RECURSIVE JsonValue(_, _)
RECURSIVE JsonMembers(_, _, _)
RECURSIVE JsonElements(_, _, _)

\* the members of an object from position i, which is at a key; d holds
\* the members before
JsonMembers(s, i, d) ==
    IF CharAt(s, i) # "\"" THEN JsonFail(i)
    ELSE LET key == JsonChars(s, i + 1, "")
             colon == SkipWs(s, key.end)
             member == JsonValue(s, SkipWs(s, colon + 1))
             after == SkipWs(s, member.end)
         IN  IF ~key.ok THEN key
             ELSE IF CharAt(s, colon) # ":" THEN JsonFail(colon)
             ELSE IF ~member.ok THEN member
             ELSE LET d2 == [k \in DOMAIN d \cup {key.value} |->
                                IF k = key.value THEN member.value ELSE d[k]]
                  IN  IF CharAt(s, after) = "}" THEN JsonOk(PyDict(d2), after + 1)
                      ELSE IF CharAt(s, after) = ","
                      THEN JsonMembers(s, SkipWs(s, after + 1), d2)
                      ELSE JsonFail(after)

\* the elements of an array from position i, which is at a value
JsonElements(s, i, items) ==
    LET element == JsonValue(s, i)
        after == SkipWs(s, element.end)
    IN  IF ~element.ok THEN element
        ELSE IF CharAt(s, after) = "]"
        THEN JsonOk(PyList(Append(items, element.value)), after + 1)
        ELSE IF CharAt(s, after) = ","
        THEN JsonElements(s, SkipWs(s, after + 1), Append(items, element.value))
        ELSE JsonFail(after)

\* the JSON value that starts at position i
JsonValue(s, i) ==
    LET c == CharAt(s, i)
        words == { k \in 1..Len(JsonWords) : startswith(From(s, i), JsonWords[k][1]) }
    IN  IF c = "" THEN JsonFail(i)
        ELSE IF c = "\""
        THEN LET str == JsonChars(s, i + 1, "")
             IN  IF str.ok THEN JsonOk(PyStr(str.value), str.end) ELSE str
        ELSE IF c = "{"
        THEN IF CharAt(s, SkipWs(s, i + 1)) = "}"
             THEN JsonOk(PyDict(EmptyDict), SkipWs(s, i + 1) + 1)
             ELSE JsonMembers(s, SkipWs(s, i + 1), EmptyDict)
        ELSE IF c = "["
        THEN IF CharAt(s, SkipWs(s, i + 1)) = "]"
             THEN JsonOk(PyList(<<>>), SkipWs(s, i + 1) + 1)
             ELSE JsonElements(s, SkipWs(s, i + 1), <<>>)
        ELSE IF words # {}
        THEN LET k == CHOOSE k \in words : TRUE
             IN  JsonOk(JsonWords[k][2], i + Len(JsonWords[k][1]))
        ELSE JsonNumber(s, i)

\* json.loads(s) of a str: the value, or json.JSONDecodeError
json_loads(s) ==
    LET v == JsonValue(s, SkipWs(s, 1))
    IN  IF v.ok /\ SkipWs(s, v.end) > Len(s)
        THEN [raised |-> FALSE, error |-> "", value |-> v.value]
        ELSE [raised |-> TRUE, error |-> "JSONDecodeError", value |-> PyNone]

\* obj.get(key, default): a dict answers, any other object has no get
HasGet(obj) == obj[1] = "dict"
Get(obj, key, default) ==
    IF key \in DOMAIN obj[2] THEN obj[2][key] ELSE default

\* ToolAdapter.parse_tool_call(tool_call, format), with whether it raised
parse_tool_call(tool_call, format) ==
    LET raise(error) == [raised |-> TRUE, error |-> error, value |-> PyNone]
        return(name, args) ==
            [raised |-> FALSE, error |-> "", value |-> <<name, args>>]
    IN
    IF format = "openai"
    THEN LET function == Get(tool_call, "function", PyDict(EmptyDict))
         IN  IF ~HasGet(function) THEN raise("AttributeError")
             ELSE LET name == Get(function, "name", PyStr(""))
                      args_str == Get(function, "arguments", PyStr("{}"))
                  IN  IF args_str[1] = "str"
                      THEN LET decoded == json_loads(args_str[2])
                           IN  IF decoded.raised THEN raise(decoded.error)
                               ELSE return(name, decoded.value)
                      ELSE return(name, args_str)
    ELSE IF format = "anthropic"
    THEN return(Get(tool_call, "name", PyStr("")),
                Get(tool_call, "input", PyDict(EmptyDict)))
    ELSE raise("ValueError")

\* ToolSchema.to_openai_format() and to_anthropic_format(), by the keys
\* that tell them apart
to_openai_format(tool) == [type |-> "function", function |-> [name |-> tool]]
to_anthropic_format(tool) == [name |-> tool, input_schema |-> "object"]

\* ToolAdapter.get_all_tools(format), with whether it raised: the format is
\* looked at once for every tool
get_all_tools(format) ==
    IF HARNESS_TOOLS # {} /\ format \notin {"openai", "anthropic"}
    THEN [raised |-> TRUE, error |-> "ValueError", value |-> {}]
    ELSE [raised |-> FALSE, error |-> "",
          value |-> { IF format = "openai" THEN to_openai_format(t)
                      ELSE to_anthropic_format(t) : t \in HARNESS_TOOLS }]

\* a dict of the given keys
DictOf(keys, value(_)) == PyDict([k \in keys |-> value(k)])

\* the values a payload holds as the arguments of a call: JSON text that is
\* an object, text that is cut short or is not JSON, structured values
ArgumentTexts ==
    { "{}", "{\"path\": \"a.txt\"}", " {\"n\": 5, \"all\": true} ",
      "{\"a\": [1, -2.5e3, null], \"n\": {\"m\": \"x\\ny\"}}",
      "{\"path\": \"a.txt\"", "{\"path\": }", "{'path': 'a'}", "",
      "path=a.txt", "{\"n\": 007}", "{\"a\": 1,}", "[\"a\"]", "\"a\"", "5",
      "{\"a\": 1} x", "{\"a\": 1, \"a\": 2}" }
StructuredArguments ==
    { PyDict(EmptyDict), PyDict([path |-> PyStr("a.txt")]), PyNone }
ArgumentValues == { PyStr(t) : t \in ArgumentTexts } \cup StructuredArguments

\* the payloads of the function-call style and of the tool-use style
OpenAIPayloads ==
    { PyDict([function |-> PyDict([name |-> PyStr("harness_read"),
                                   arguments |-> a])]) :
          a \in ArgumentValues }
        \cup { PyDict(EmptyDict),
               PyDict([function |-> PyDict(EmptyDict)]),
               PyDict([function |-> PyDict([name |-> PyStr("harness_read")])]),
               PyDict([function |-> PyNone]),
               PyDict([function |-> PyStr("harness_read")]) }
AnthropicPayloads ==
    { PyDict([name |-> PyStr("harness_read"), input |-> a]) :
          a \in StructuredArguments }
        \cup { PyDict(EmptyDict), PyDict([name |-> PyStr("harness_read")]) }
Formats == { "openai", "anthropic", "gemini", "" }

InitToolCall ==
    /\ Constructed
    /\ probe \in
           { Pending("parse_tool_call", [tool_call |-> p, format |-> f]) :
                 p \in OpenAIPayloads \cup AnthropicPayloads, f \in Formats }
               \cup { Pending("get_all_tools", [format |-> f]) : f \in Formats }
               \cup { Pending("json.loads", t) : t \in ArgumentTexts }

ApplyParseToolCall ==
    Apply("parse_tool_call",
          parse_tool_call(probe.input.tool_call, probe.input.format))
ApplyGetAllTools == Apply("get_all_tools", get_all_tools(probe.input.format))
ApplyJsonLoads == Apply("json.loads", json_loads(probe.input))

NextToolCall ==
    \/ ApplyParseToolCall
    \/ ApplyGetAllTools
    \/ ApplyJsonLoads

SpecToolCall == InitToolCall /\ [][NextToolCall]_vars

(* C31: parse_tool_call raises only for an unsupported format: with format *)
(* openai or anthropic it returns (name, arguments) for every payload,     *)
(* decoding the arguments when they are JSON text and passing them through *)
(* when they are structured; get_all_tools raises for, and only for, a     *)
(* format other than the two.                                              *)
C31_RaisesOnlyForFormat ==
    /\ Applied("parse_tool_call") =>
           (probe.output.raised
                <=> probe.input.format \notin {"openai", "anthropic"})
    /\ Applied("get_all_tools") =>
           (probe.output.raised
                <=> probe.input.format \notin {"openai", "anthropic"})

-----------------------------------------------------------------------------
(* command_parser.py: the text of get_help *)

\* COMMAND_DEFINITIONS[c]: the subcommands with their args and
\* optional_args, the args, the optional_args and the flags with the names
\* of their types, each in the order of the source
DEFINITIONS(c) ==
    CASE c = "cmd" ->
          [has_subcommands |-> FALSE, subcommands |-> <<>>,
           args |-> <<"command">>, optional_args |-> <<>>,
           has_flags |-> TRUE, flags |-> <<<<"timeout", "int">>>>]
      [] c = "read" ->
          [has_subcommands |-> FALSE, subcommands |-> <<>>,
           args |-> <<"path">>, optional_args |-> <<>>,
           has_flags |-> TRUE, flags |-> <<<<"lines", "int">>,
               <<"offset", "int">>>>]
      [] c = "write" ->
          [has_subcommands |-> FALSE, subcommands |-> <<>>,
           args |-> <<"path">>, optional_args |-> <<>>,
           has_flags |-> TRUE, flags |-> <<<<"content", "str">>,
               <<"append", "bool">>>>]
      [] c = "edit" ->
          [has_subcommands |-> FALSE, subcommands |-> <<>>,
           args |-> <<"path">>, optional_args |-> <<>>,
           has_flags |-> TRUE, flags |-> <<<<"old", "str">>,
               <<"new", "str">>, <<"all", "bool">>>>]
      [] c = "search" ->
          [has_subcommands |-> FALSE, subcommands |-> <<>>,
           args |-> <<"pattern">>, optional_args |-> <<"path">>,
           has_flags |-> TRUE, flags |-> <<<<"type", "str">>,
               <<"limit", "int">>>>]
      [] c = "tree" ->
          [has_subcommands |-> FALSE, subcommands |-> <<>>,
           args |-> <<>>, optional_args |-> <<"path">>,
           has_flags |-> TRUE, flags |-> <<<<"depth", "int">>>>]
      [] c = "sandbox" ->
          [has_subcommands |-> TRUE, subcommands |-> <<<<"list", <<>>,
              <<>>>>, <<"create", <<"name">>, <<>>>>,
                  <<"switch", <<"name">>, <<>>>>,
                      <<"share", <<"name", "agents">>, <<>>>>,
                          <<"delete", <<"name">>, <<>>>>,
                              <<"env", <<"action">>, <<"key", "value">>>>,
                                  <<"state", <<"action">>,
                                      <<"key", "value">>>>>>,
           args |-> <<>>, optional_args |-> <<>>,
           has_flags |-> FALSE, flags |-> <<>>]
      [] c = "skill" ->
          [has_subcommands |-> TRUE, subcommands |-> <<<<"list", <<>>,
              <<>>>>, <<"info", <<"name">>, <<>>>>, <<"invoke", <<"name">>,
                  <<>>>>, <<"install", <<"name">>, <<>>>>,
                      <<"create", <<"name">>, <<>>>>,
                          <<"remove", <<"name">>, <<>>>>>>,
           args |-> <<>>, optional_args |-> <<>>,
           has_flags |-> FALSE, flags |-> <<>>]
      [] c = "agent" ->
          [has_subcommands |-> TRUE, subcommands |-> <<<<"list", <<>>,
              <<>>>>, <<"msg", <<"agent", "message">>, <<>>>>,
                  <<"broadcast", <<"message">>, <<>>>>,
                      <<"query", <<"agent", "question">>, <<>>>>,
                          <<"subscribe", <<"pattern">>, <<>>>>,
                              <<"unsubscribe", <<"pattern">>, <<>>>>>>,
           args |-> <<>>, optional_args |-> <<>>,
           has_flags |-> FALSE, flags |-> <<>>]
      [] c = "eval" ->
          [has_subcommands |-> TRUE, subcommands |-> <<<<"start", <<>>,
              <<>>>>, <<"record", <<"task">>, <<>>>>, <<"assess", <<>>,
                  <<>>>>, <<"gaps", <<>>, <<>>>>, <<"improve", <<>>,
                      <<>>>>, <<"report", <<>>, <<>>>>, <<"status", <<>>,
                          <<>>>>, <<"history", <<>>, <<>>>>>>,
           args |-> <<>>, optional_args |-> <<>>,
           has_flags |-> FALSE, flags |-> <<>>]
      [] c = "qa" ->
          [has_subcommands |-> TRUE, subcommands |-> <<<<"generate", <<>>,
              <<"topic">>>>, <<"pending", <<>>, <<>>>>,
                  <<"answer", <<"id", "answer">>, <<>>>>,
                      <<"review", <<"id">>, <<>>>>, <<"learn", <<>>,
                          <<>>>>, <<"export", <<>>, <<>>>>>>,
           args |-> <<>>, optional_args |-> <<>>,
           has_flags |-> FALSE, flags |-> <<>>]
      [] c = "market" ->
          [has_subcommands |-> TRUE, subcommands |-> <<<<"search", <<"query">>, <<>>>>, <<"info", <<"id">>, <<>>>>, <<"install", <<"id">>, <<>>>>, <<"publish", <<"path">>, <<>>>>, <<"rate", <<"id", "rating">>, <<"review">>>>, <<"my", <<>>, <<>>>>>>,
           args |-> <<>>, optional_args |-> <<>>,
           has_flags |-> FALSE, flags |-> <<>>]
      [] c = "help" ->
          [has_subcommands |-> FALSE, subcommands |-> <<>>,
           args |-> <<>>, optional_args |-> <<"topic">>,
           has_flags |-> FALSE, flags |-> <<>>]
      [] c = "status" ->
          [has_subcommands |-> FALSE, subcommands |-> <<>>,
           args |-> <<>>, optional_args |-> <<>>,
           has_flags |-> FALSE, flags |-> <<>>]
      [] c = "config" ->
          [has_subcommands |-> FALSE, subcommands |-> <<>>,
           args |-> <<"action">>, optional_args |-> <<"key", "value">>,
           has_flags |-> FALSE, flags |-> <<>>]
      [] c = "history" ->
          [has_subcommands |-> FALSE, subcommands |-> <<>>,
           args |-> <<>>, optional_args |-> <<>>,
           has_flags |-> TRUE, flags |-> <<<<"limit", "int">>>>]
      [] c = "clear" ->
          [has_subcommands |-> FALSE, subcommands |-> <<>>,
           args |-> <<>>, optional_args |-> <<>>,
           has_flags |-> FALSE, flags |-> <<>>]
      [] c = "version" ->
          [has_subcommands |-> FALSE, subcommands |-> <<>>,
           args |-> <<>>, optional_args |-> <<>>,
           has_flags |-> FALSE, flags |-> <<>>]

\* sorted(self.definitions.keys())
SortedCommands ==
    << "agent", "clear", "cmd", "config", "edit", "eval", "help", "history",
       "market", "qa", "read", "sandbox", "search", "skill", "status", "tree",
       "version", "write" >>

\* ' '.join(f"<{a}>" for a in names) and the same with [ ]
Bracketed(names, open, close) ==
    join(" ", [i \in 1..Len(names) |-> open \o names[i] \o close])

\* (mutant) every command is answered as one the catalog does not have
HelpText_Unknown(command) ==
    IF command = Nothing THEN "Unknown command: None"
    ELSE "Unknown command: " \o command[1]

\* CommandParser.get_help(command): the text, for command None (Nothing)
\* or a str
HelpText(command) ==
    IF command = Nothing
    THEN join("\n", <<"Available commands:\n">>
                        \o [i \in 1..Len(SortedCommands) |->
                               "  /" \o SortedCommands[i]]
                        \o <<"\nUse /help <command> for details.">>)
    ELSE IF <<command[1]>> \notin COMMAND_DEFINITIONS
    THEN "Unknown command: " \o command[1]
    ELSE LET definition == DEFINITIONS(command[1])
             args_str == Bracketed(definition.args, "<", ">")
             opt_args_str == Bracketed(definition.optional_args, "[", "]")
             sub_line(sub) ==
                 strip("  " \o sub[1] \o " " \o Bracketed(sub[2], "<", ">")
                           \o " " \o Bracketed(sub[3], "[", "]"))
         IN  IF definition.has_subcommands
             THEN join("\n", <<"/" \o command[1], "\nSubcommands:">>
                                 \o [i \in 1..Len(definition.subcommands) |->
                                        sub_line(definition.subcommands[i])])
             ELSE join("\n",
                       <<"/" \o command[1]
                             \o (IF args_str # "" \/ opt_args_str # ""
                                 THEN strip(" " \o args_str \o " "
                                                \o opt_args_str)
                                 ELSE "")>>
                           \o (IF definition.has_flags
                               THEN <<"\nFlags:">>
                                        \o [i \in 1..Len(definition.flags) |->
                                               "  --" \o definition.flags[i][1]
                                                      \o " <"
                                                      \o definition.flags[i][2]
                                                      \o ">"]
                               ELSE <<>>))

\* the result of the built-in help of _execute_text_command, as text; ""
\* when the response was made elsewhere
BuiltinHelp(request, via) ==
    IF via = "help"
    THEN HelpText(IF Len(request.parsed_command.args) > 0
                  THEN Some(request.parsed_command.args[1]) ELSE Nothing)
    ELSE ""

-----------------------------------------------------------------------------
(* Specification of whole calls through middlewares that may call next     *)
(* more than once                                                          *)

MaxWholeCalls == 1     \* calls of execute_text and execute_tool
MaxFailures == 1       \* invocations of a handler that fail before one returns

\* what a middleware does with (request, next): as MiddlewareKinds, and
\* "retry", which awaits next and, when the response is a failure, awaits
\* next once more and returns that response
WrappedKinds == { "pass", "short", "raise", "retry" }

\* the chains the embedding program builds with add_middleware
WrappedChains ==
    { <<>>, <<"pass">>, <<"short">>, <<"raise">>, <<"retry">>,
      <<"pass", "pass">>, <<"pass", "retry">>, <<"retry", "retry">> }

\* what the handler does at its first, second, ... invocation for a
\* request: it raises the first failures times and returns from then on
OutcomeSeqs == 0..MaxFailures
OutcomeAt(failures, k) ==
    IF k <= failures THEN [raises |-> TRUE, value |-> <<"m1">>]
    ELSE [raises |-> FALSE, value |-> <<"r1">>]

WholeTexts == { "", "/read", "/read\n/help", "/frobnicate\n/read" }

\* what came out of the chain from some point on: a response or an error,
\* the handler invocations made (used counts them), the handlers, and
\* where the response was made (via)
NextResult(raised, response, error, used, inv, via) ==
    [raised |-> raised, response |-> response, error |-> error,
     used |-> used, inv |-> inv, via |-> via]

\* (mutant) a handler that raised is awaited once more
AwaitHandler_Again(request, d, outcomes, used) ==
    IF OutcomeAt(outcomes, used + 1).raises
    THEN NextResult(FALSE,
                    HandlerResponse(request, d.handler, d.path,
                                    OutcomeAt(outcomes, used + 2)),
                    None, used + 2, <<d.handler, d.handler>>, d.via)
    ELSE NextResult(FALSE,
                    HandlerResponse(request, d.handler, d.path,
                                    OutcomeAt(outcomes, used + 1)),
                    None, used + 1, <<d.handler>>, d.via)

\* "result = await handler.execute(parsed, context)" in its try/except:
\* one invocation, whose error becomes a failure response
AwaitHandler(request, d, outcomes, used) ==
    NextResult(FALSE,
               HandlerResponse(request, d.handler, d.path,
                               OutcomeAt(outcomes, used + 1)),
               None, used + 1, <<d.handler>>, d.via)

\* final_handler: _execute_core awaited with the request
FinalHandler(request, outcomes, used) ==
    LET d == _execute_core(request) IN
    CASE d.kind = "invoke" -> AwaitHandler(request, d, outcomes, used)
      [] d.kind = "answer" ->
             NextResult(FALSE, d.response, None, used, <<>>, d.via)
      [] d.kind = "raise" ->
             NextResult(TRUE, NoObject, d.error, used, <<>>, d.via)

\* the handler _wrap_middleware made for position pos of the chain,
\* awaited with the request
RECURSIVE RunChain(_, _, _, _)
RunChain(pos, request, outcomes, used) ==
    IF pos > Len(Chain) THEN FinalHandler(request, outcomes, used)
    ELSE LET kind == middlewares[Chain[pos]]
             first == RunChain(pos + 1, request, outcomes, used)
         IN  CASE kind = "pass" -> first
               [] kind = "short" ->
                      NextResult(FALSE, ShortResponse(request), None, used,
                                 <<>>, "mw_short")
               [] kind = "raise" ->
                      NextResult(TRUE, NoObject, MiddlewareError, used,
                                 <<>>, "mw_raise")
               [] kind = "retry" ->
                      IF first.raised \/ first.response.success THEN first
                      ELSE LET second == RunChain(pos + 1, request, outcomes,
                                                  first.used)
                           IN  [second EXCEPT !.inv = first.inv \o @]

\* UnifiedCommandBus._execute(request, context) as a whole, from history h
WholeExecute(h, request, outcomes) ==
    LET ran == RunChain(1, request, outcomes, 0)
        res == _execute_result(request, ran.raised, ran.response, ran.error)
    IN  [history |-> AppendHistory(h, request, max_history),
         request |-> request, response |-> res.response, inv |-> ran.inv,
         help |-> BuiltinHelp(request, ran.via)]

\* the loop of execute_text over the parsed commands from the i-th on:
\* the executions, in order
RECURSIVE TextLoop(_, _, _, _, _)
TextLoop(parsed, i, h, agent_id, outcomes) ==
    IF i > Len(parsed) THEN <<>>
    ELSE LET request == ExecutionRequest(n_constructed + i, clock + i,
                                         TEXT_COMMAND, agent_id, parsed[i],
                                         None, <<>>)
             done == WholeExecute(h, request, outcomes)
         IN  <<done>> \o TextLoop(parsed, i + 1, done.history, agent_id,
                                  outcomes)

\* the dicts of a tool call are objects: the caller's mapping, which the
\* request refers to, and the dicts made from it; objects says what each
\* holds
CallerArgs == "tool_args"
ObjectsOf(tool_args) == [o \in {CallerArgs} |-> tool_args]

\* (mutant) no copy is made: the mapping itself is handed on
DictCopy_Alias(objects, obj, new) == [objects |-> objects, ref |-> obj]

\* dict(obj), and the dict that ** makes of a mapping: a new dict with the
\* items of obj
DictCopy(objects, obj, new) ==
    [objects |-> [o \in DOMAIN objects \cup {new} |->
                     IF o = new THEN objects[obj] ELSE objects[o]],
     ref |-> new]

\* arguments.pop("action", None) of tool_to_command, on the dict it is given
PopActionOn(objects, ref) == [objects EXCEPT ![ref] = PopAction(@)]

\* tool_to_command(tool_name, dict(tool_args)) of _execute_tool_call
RoutedArgs(objects) ==
    LET copy == DictCopy(objects, CallerArgs, "dict(tool_args)")
    IN  PopActionOn(copy.objects, copy.ref)

\* handler(**arguments) of ToolAdapter.execute, then
\* tool_to_command(tool_name, dict(kwargs)) of the tool handler
AdapterArgs(objects) ==
    LET kwargs == DictCopy(objects, CallerArgs, "kwargs")
        copy == DictCopy(kwargs.objects, kwargs.ref, "dict(kwargs)")
    IN  PopActionOn(copy.objects, copy.ref)

\* the dicts after the core dispatcher ran for a tool call
ObjectsAfter(request) ==
    LET d == _execute_core(request)
        objects == ObjectsOf(request.tool_args)
    IN  IF d.kind # "invoke" THEN objects
        ELSE IF d.path = "tool" THEN RoutedArgs(objects)
        ELSE AdapterArgs(objects)

\* a request, whose tool_args is the caller's mapping, as it reads after
\* the call
ReadAfter(request, objects) ==
    [request EXCEPT !.tool_args = objects[CallerArgs]]

\* the call is over: the bus holds the history of its last execution, and
\* probe what the caller gave and got
Finish(fn, given, n_parsed, runs, outcomes, caller_args) ==
    /\ history' = IF runs = <<>> THEN history ELSE runs[Len(runs)].history
    /\ n_constructed' = n_constructed + Len(runs)
    /\ clock' = clock + Len(runs)
    /\ appended' = appended \cup { runs[i].request.seq : i \in 1..Len(runs) }
    /\ probe' = [fn |-> fn, done |-> TRUE, given |-> given,
                 n_parsed |-> n_parsed, before |-> history,
                 requests |-> [i \in 1..Len(runs) |-> runs[i].request],
                 responses |-> [i \in 1..Len(runs) |-> runs[i].response],
                 inv |-> [i \in 1..Len(runs) |-> runs[i].inv],
                 help |-> [i \in 1..Len(runs) |-> runs[i].help],
                 outcomes |-> outcomes, caller_args |-> caller_args,
                 calls |-> probe.calls + 1]
    /\ UNCHANGED <<handlers, tool_handlers, schema_handlers, middlewares,
                   max_history, ticks, calls, n_registrations, last_query>>

\* UnifiedCommandBus.execute_text(text, agent_id), from call to return
WholeText(text, agent_id, outcomes) ==
    /\ probe.calls < MaxWholeCalls
    /\ LET parsed == ParsedTexts[text]
       IN  Finish("execute_text", text, Len(parsed),
                  TextLoop(parsed, 1, history, agent_id, outcomes), outcomes,
                  <<>>)

\* UnifiedCommandBus.execute_tool(tool_name, tool_args, agent_id), from
\* call to return
WholeTool(tool_name, tool_args, agent_id, outcomes) ==
    /\ probe.calls < MaxWholeCalls
    /\ LET request == ExecutionRequest(n_constructed + 1, clock + 1, TOOL_CALL,
                                       agent_id, NoObject, tool_name, tool_args)
           ran == WholeExecute(history, request, outcomes)
           objects == IF ran.inv = <<>> THEN ObjectsOf(tool_args)
                      ELSE ObjectsAfter(request)
           read == ReadAfter(request, objects)
       IN  Finish("execute_tool", <<tool_name, tool_args>>, 1,
                  << [ran EXCEPT !.request = read,
                                 !.history = [@ EXCEPT ![Len(@)] = read]] >>,
                  outcomes, objects[CallerArgs])

\* a bus with the default max_history or with the smallest one, and no
\* call made
InitWhole ==
    /\ Constructed
    /\ probe = [fn |-> "none", done |-> FALSE, calls |-> 0]

\* the tool calls: with an action, with none, with no argument, with
\* what is not a mapping, for a tool with a command handler and for one
\* whose handler the adapter was given
WholeToolArgs ==
    ToolArgs \cup { << <<"path", <<"str", "a.txt">> >> >>, <<>> }
WholeToolCalls ==
    { <<PREFIX, "read">>, <<PREFIX, "shell">> } \X WholeToolArgs

\* bus.tool_adapter.register_handler(tool_name, tool_handler): the tool
\* handler of handler is given to the adapter, no command is registered
adapter_register_handler(tool_name, handler) ==
    /\ n_registrations' = n_registrations + 1
    /\ tool_handlers' = DictSet(tool_handlers, tool_name, handler)
    /\ schema_handlers' = BindSchema(schema_handlers, tool_name, handler)
    /\ UNCHANGED <<handlers, middlewares, history, max_history, clock, ticks,
                   probe, calls, n_constructed, appended, last_query>>

NextWhole ==
    \/ \E handler \in Handlers :
           /\ probe.calls = 0
           /\ n_registrations < MaxRegistrations
           /\ register_handler(<<"read">>, handler)
    \/ \E handler \in Handlers :
           /\ probe.calls = 0
           /\ n_registrations < MaxRegistrations
           /\ adapter_register_handler(<<PREFIX, "shell">>, handler)
    \/ \E middleware \in WrappedKinds :
           /\ probe.calls = 0
           /\ Append(middlewares, middleware) \in WrappedChains
           /\ add_middleware(middleware)
    \/ \E text \in WholeTexts, agent_id \in Callers, outcomes \in OutcomeSeqs :
           WholeText(text, agent_id, outcomes)
    \/ \E tc \in WholeToolCalls, agent_id \in Callers, outcomes \in OutcomeSeqs :
           WholeTool(tc[1], tc[2], agent_id, outcomes)

SpecWhole == InitWhole /\ [][NextWhole]_vars

\* every middleware of the chain awaits next exactly once
AllPass == \A p \in 1..Len(middlewares) : middlewares[p] = "pass"

\* the core sends the request to a registered handler
RoutedToHandler(request) == _execute_core(request).kind = "invoke"

(* C32: the core attempts each request exactly once: with no middleware,   *)
(* or with middlewares that each call next exactly once, a request routed  *)
(* to a registered handler invokes that handler's execute exactly once,    *)
(* also when the handler fails.                                            *)
C32_AttemptedOnce ==
    (probe.done /\ AllPass) =>
        \A i \in 1..Len(probe.requests) :
            RoutedToHandler(probe.requests[i]) =>
                /\ Len(probe.inv[i]) = 1
                /\ probe.inv[i][1] = _execute_core(probe.requests[i]).handler

\* a handler that raised was invoked once, behind a middleware that passes
C32_Witness ==
    /\ probe.done
    /\ middlewares = <<"pass">>
    /\ probe.requests # <<>>
    /\ RoutedToHandler(probe.requests[1])
    /\ ~probe.responses[1].success
    /\ probe.inv[1] = << <<"h1">> >>

\* behind a middleware that retries the handler was invoked twice
C32_WitnessRetry ==
    /\ probe.done
    /\ probe.requests # <<>>
    /\ Len(probe.inv[1]) = 2

\* the entries a call is to add: one for a tool call, one for every command
\* parsed from a text
EntriesDue ==
    IF probe.fn = "execute_tool" THEN 1 ELSE Len(parse_all(probe.given))

\* the number of times a request is in the history
TimesIn(h, request) == Cardinality({ j \in 1..Len(h) : h[j] = request })

(* C36: one request is recorded once: whatever the middlewares do (call    *)
(* next again to retry, not call it, or raise), an execute_tool call adds  *)
(* exactly one entry to the history and an execute_text call exactly as    *)
(* many entries as commands were parsed from the text.                     *)
C36_RecordedOnce ==
    probe.done =>
        /\ Len(probe.requests) = EntriesDue
        /\ history = probe.before \o probe.requests
        /\ \A i \in 1..Len(probe.requests) :
               TimesIn(history, probe.requests[i]) = 1

\* a middleware awaited next twice for a tool call: two handler
\* invocations, one entry more
C36_Witness ==
    /\ probe.done
    /\ probe.fn = "execute_tool"
    /\ \E p \in 1..Len(middlewares) : middlewares[p] = "retry"
    /\ Len(probe.inv[1]) = 2
    /\ Len(history) = Len(probe.before) + 1

\* and for the second command of a text, with the first in the history
C36_WitnessSecond ==
    /\ probe.done
    /\ probe.fn = "execute_text"
    /\ Len(probe.requests) = 2
    /\ Len(probe.inv[2]) = 2
    /\ Len(history) = Len(probe.before) + 2

\* a middleware raised, and one that did not call next answered, for a
\* text of two commands: two entries more
C36_WitnessNoNext ==
    /\ probe.done
    /\ probe.fn = "execute_text"
    /\ middlewares \in { <<"raise">>, <<"short">> }
    /\ Len(probe.requests) = 2
    /\ Len(history) = Len(probe.before) + 2

(* C38: execute_tool never mutates the caller's tool_args mapping: after   *)
(* the call, on the routed-handler path as on the direct-adapter path, the *)
(* mapping still holds the action key and every other key with its value,  *)
(* and the request stored in the history holds the original arguments.     *)
C38_ArgsUntouched ==
    (probe.done /\ probe.fn = "execute_tool") =>
        /\ probe.caller_args = probe.given[2]
        /\ history[Len(history)].tool_args = probe.given[2]

\* a handler was invoked on the routed path for arguments with an action
C38_Witness ==
    /\ probe.done
    /\ probe.fn = "execute_tool"
    /\ probe.inv[1] # <<>>
    /\ _execute_core(probe.requests[1]).path = "tool"
    /\ IsKey(probe.given[2], "action")
    /\ IsKey(probe.caller_args, "action")
    /\ ~IsKey(_execute_core(probe.requests[1]).parsed.flags, "action")

\* and on the adapter path
C38_WitnessAdapter ==
    /\ probe.done
    /\ probe.fn = "execute_tool"
    /\ probe.inv[1] # <<>>
    /\ _execute_core(probe.requests[1]).path = "adapter"
    /\ IsKey(probe.caller_args, "action")

-----------------------------------------------------------------------------
(* Specification of help on the text path *)

\* the texts: help alone, for commands with flags, with subcommands, with
\* an optional argument and with nothing, for names the catalog does not
\* have, and with more than a name
HelpLines ==
    { "/help", "/help read", "/help sandbox", "/help help", "/help status",
      "  /help  search ", "/HELP tree", "/help nosuch", "/help Read",
      "/help --all", "/help read write", "/help 'read", "/helper",
      "/help tree", "/help write", "/read a.txt" }

\* the commands handlers are registered under
HelpRegisterNames == { <<"read">>, <<"sandbox">>, <<"help">> }

\* execute_text(text, agent_id), from call to return
HelpCall(text, agent_id, outcomes) ==
    /\ probe.calls < MaxWholeCalls
    /\ LET parsed == parse_all(text)
       IN  Finish("execute_text", text, Len(parsed),
                  TextLoop(parsed, 1, history, agent_id, outcomes), outcomes,
                  <<>>)

NextHelp ==
    \/ \E command \in HelpRegisterNames, handler \in Handlers :
           /\ probe.calls = 0
           /\ n_registrations < MaxRegistrations
           /\ register_handler(command, handler)
    \/ \E text \in HelpLines, agent_id \in Callers, outcomes \in OutcomeSeqs :
           HelpCall(text, agent_id, outcomes)

SpecHelp == InitWhole /\ [][NextHelp]_vars

\* the command line given is /help with words after it
IsHelpLine ==
    /\ startswith(strip(probe.given), "/help")
    /\ ~shlex_split(From(strip(probe.given), 2)).raised
    /\ Head(shlex_split(From(strip(probe.given), 2)).tokens) = "help"
HelpWords == Tail(shlex_split(From(strip(probe.given), 2)).tokens)

\* the lines of a text
LinesOfText(text) == split_str(text, "\n")

\* the text lists the command on a line of its own
Lists(text, name) ==
    \E i \in 1..Len(LinesOfText(text)) : LinesOfText(text)[i] = "  /" \o name

(* C33: help is always there on the text path: with no handler registered  *)
(* under help, /help succeeds with the listing of every command of the     *)
(* catalog and /help <name> succeeds with the help text of that command,   *)
(* whatever handlers are registered.                                       *)
C33_HelpBuiltin ==
    (probe.done /\ IsHelpLine /\ <<"help">> \notin DOMAIN handlers) =>
        /\ Len(probe.responses) = 1
        /\ probe.responses[1].success
        /\ probe.inv[1] = <<>>
        /\ HelpWords = <<>> =>
               /\ startswith(probe.help[1], "Available commands:")
               /\ \A c \in COMMAND_DEFINITIONS : Lists(probe.help[1], c[1])
        /\ (Len(HelpWords) = 1 /\ <<HelpWords[1]>> \in COMMAND_DEFINITIONS) =>
               /\ LinesOfText(probe.help[1])[1]
                      = "/" \o HelpWords[1]
                            \o Bracketed(DEFINITIONS(HelpWords[1]).args, "<", ">")
                            \o (IF DEFINITIONS(HelpWords[1]).args # <<>>
                                   /\ DEFINITIONS(HelpWords[1]).optional_args # <<>>
                                THEN " " ELSE "")
                            \o Bracketed(DEFINITIONS(HelpWords[1]).optional_args,
                                         "[", "]")
                  \/ DEFINITIONS(HelpWords[1]).has_subcommands
               /\ startswith(probe.help[1], "/" \o HelpWords[1])
               /\ probe.responses[1].result = get_help(<<HelpWords[1]>>)

\* /help read was answered with the text for read while a handler is
\* registered for read
C33_Witness ==
    /\ probe.done
    /\ probe.given = "/help read"
    /\ <<"read">> \in DOMAIN handlers
    /\ probe.responses[1].success
    /\ probe.help[1] = "/read<path>\n\nFlags:\n  --lines <int>\n  --offset <int>"

\* /help was answered with the listing
C33_WitnessListing ==
    /\ probe.done
    /\ probe.given = "/help"
    /\ Lists(probe.help[1], "version")

\* with a handler registered under help, the handler answers
C33_WitnessRegistered ==
    /\ probe.done
    /\ probe.given = "/help"
    /\ <<"help">> \in DOMAIN handlers
    /\ probe.inv[1] # <<>>
    /\ probe.help[1] = ""

-----------------------------------------------------------------------------
(* Specification of two calls that are given one context mapping *)

\* the mapping the caller gives to both calls: empty, or with a key of the
\* caller's; a key that is absent is None
GivenContexts ==
    { [session |-> None, agent_id |-> None, source |-> None],
      [session |-> <<"s1">>, agent_id |-> None, source |-> None] }

\* bool(context): a dict is true when it has a key
Truthy(context) ==
    context.session # None \/ context.agent_id # None \/ context.source # None

\* probe holds the dicts: the caller's mapping (given), the dict each call
\* made for itself when the mapping was false (own), and which of the two
\* each call uses
InitShared ==
    /\ handlers = EmptyDict
    /\ tool_handlers = EmptyDict
    /\ schema_handlers = NoSchemaHandlers
    /\ middlewares = << >>
    /\ history = << >>
    /\ max_history = DEFAULT_MAX_HISTORY
    /\ clock = 0
    /\ ticks = {1}
    /\ calls = [c \in {"c1", "c2"} |-> IdleCall]
    /\ n_constructed = 0
    /\ appended = {}
    /\ n_registrations = 0
    /\ last_query = NoQuery
    /\ \E given \in GivenContexts :
           probe = [fn |-> "context", given |-> given,
                    own |-> [c \in {"c1", "c2"} |->
                                [session |-> None, agent_id |-> None,
                                 source |-> None]],
                    uses |-> [c \in {"c1", "c2"} |-> "none"]]

\* "context = context or {}", then context["agent_id"] = agent_id and
\* context["source"] = source, for the call of slot c
SetContext(c, agent_id, source) ==
    IF Truthy(probe.given)
    THEN probe' = [probe EXCEPT !.uses[c] = "given",
                                !.given.agent_id = agent_id,
                                !.given.source = source]
    ELSE probe' = [probe EXCEPT !.uses[c] = "own",
                                !.own[c].agent_id = agent_id,
                                !.own[c].source = source]

\* the dict the call of slot c passes on as context, as it reads now
ContextOf(c) == IF probe.uses[c] = "given" THEN probe.given ELSE probe.own[c]

\* a call is between the return of its last middleware's await and the
\* core dispatcher: nothing else runs until the handler is awaited
AtCoreOf(c) == calls[c].pc = "mw" /\ calls[c].mwpos = Len(Chain) + 1
NoneAtCore == \A c \in DOMAIN calls : ~AtCoreOf(c)

\* execute_text(text, agent_id, context) up to the await of the first
\* middleware
SharedText(c, text, agent_id) ==
    /\ calls[c].pc = "idle"
    /\ Len(ParsedTexts[text]) = 1
    /\ n_constructed < MaxRequests
    /\ SetContext(c, agent_id, "text")
    /\ BeginRequest(c, [IdleCall EXCEPT !.kind = "text", !.agent_id = agent_id,
                                        !.text = text,
                                        !.parsed = ParsedTexts[text],
                                        !.idx = 1],
                    TEXT_COMMAND, ParsedTexts[text][1], None, <<>>)
    /\ UNCHANGED <<handlers, tool_handlers, schema_handlers, middlewares,
                   max_history, ticks, n_registrations, last_query>>

\* execute_tool(tool_name, tool_args, agent_id, context) up to the await of
\* the first middleware
SharedTool(c, tool_name, tool_args, agent_id) ==
    /\ calls[c].pc = "idle"
    /\ n_constructed < MaxRequests
    /\ SetContext(c, agent_id, "tool")
    /\ BeginRequest(c, [IdleCall EXCEPT !.kind = "tool",
                                        !.agent_id = agent_id,
                                        !.tool_name = tool_name,
                                        !.tool_args = tool_args],
                    TOOL_CALL, NoObject, tool_name, tool_args)
    /\ UNCHANGED <<handlers, tool_handlers, schema_handlers, middlewares,
                   max_history, ticks, n_registrations, last_query>>

\* final_handler: _execute_core is awaited with the request and the context
\* of the call; a handler it invokes is given that dict, or the literal
\* {"source": "tool"} on the adapter path
SharedCoreStep(c) ==
    LET rec == AtCore(calls[c])
        d == _execute_core(rec.request)
        seen == IF d.path = "adapter"
                THEN [agent_id |-> None, source |-> "tool"]
                ELSE [agent_id |-> ContextOf(c).agent_id,
                      source |-> ContextOf(c).source]
    IN
    /\ AtCoreOf(c)
    /\ CASE d.kind = "invoke" ->
                /\ calls' = [calls EXCEPT ![c] =
                                [rec EXCEPT !.pc = "handler",
                                            !.handler = d.handler,
                                            !.path = d.path,
                                            !.inv = Append(@, <<d.handler,
                                                                d.path, seen>>)]]
                /\ UNCHANGED <<history, clock, n_constructed, appended>>
         [] d.kind = "answer" ->
                Complete(c, rec, FALSE, d.response, None, d.via, NoOutcome)
         [] d.kind = "raise" ->
                Complete(c, rec, TRUE, NoObject, d.error, d.via, NoOutcome)
    /\ UNCHANGED <<handlers, tool_handlers, schema_handlers, middlewares,
                   max_history, ticks, probe, n_registrations, last_query>>

\* the calls interleave where a middleware or a handler is awaited; with
\* no middleware a call runs from its start to its handler
NextShared ==
    \/ \E handler \in Handlers :
           /\ Setup
           /\ n_registrations < MaxRegistrations
           /\ register_handler(<<"read">>, handler)
    \/ \E middleware \in MiddlewareKinds :
           /\ Setup
           /\ Len(middlewares) < MaxMiddlewares
           /\ add_middleware(middleware)
    \/ \E c \in DOMAIN calls :
           /\ NoneAtCore
           /\ SharedText(c, "/read", AgentOf[c])
    \/ \E c \in DOMAIN calls :
           /\ NoneAtCore
           /\ SharedTool(c, <<PREFIX, "read">>, <<>>, AgentOf[c])
    \/ \E c \in DOMAIN calls :
           /\ NoneAtCore
           /\ MiddlewareStep(c)
    \/ \E c \in DOMAIN calls : SharedCoreStep(c)
    \/ \E c \in DOMAIN calls :
           /\ NoneAtCore
           /\ HandlerReturn(c)

SpecShared == InitShared /\ [][NextShared]_vars

\* every handler invocation of the call of slot c, made for a request that
\* is answered or for the one that is running
InvocationsOf(c) ==
    UNION { { calls[c].served[i].inv[k] : k \in DOMAIN calls[c].served[i].inv } :
                i \in DOMAIN calls[c].served }
        \cup { calls[c].inv[k] : k \in DOMAIN calls[c].inv }

(* C37: when two bus calls that interleave at their awaits were given the  *)
(* same context mapping, each handler invocation still sees the agent_id   *)
(* and the source of its own request, never those of the other call.       *)
C37_OwnContext ==
    \A c \in DOMAIN calls :
        \A i \in InvocationsOf(c) :
            i[2] # "adapter" =>
                /\ i[3].agent_id = calls[c].agent_id
                /\ i[3].source = calls[c].kind

====
